---------------------------- MODULE Spec2Model ----------------------------
(***************************************************************************)
(* Reliable delivery of SmartPark edge nodes.                              *)
(*                                                                         *)
(* The v2 edge node (src/v2/edge) sends slot events through StatsSender:   *)
(* an immediate POST, an SQLite buffer (table event_buffer) for the events *)
(* whose POST failed, and a background thread that replays the buffer.     *)
(* The v1 edge node (src/edge) uploads frames through FrameUploader, which *)
(* has its own SQLite buffer (table frame_buffer).  A process is one node  *)
(* variant; the variable node says which.                                  *)
(*                                                                         *)
(* Granularity: one action per network call and per database transaction   *)
(* of a handler, so that the processing thread and the replay thread of    *)
(* the v2 node interleave exactly where the code lets them.                *)
(***************************************************************************)
EXTENDS Integers, Sequences, FiniteSets, TLC

(***************************************************************************)
(* Bounds of the model.                                                    *)
(***************************************************************************)
\* number of distinct slot events the occupancy engine hands to the sender
MaxEvents == 3
\* largest list of events passed to one send_slot_events call
MaxBatch == 2
\* batch_size of replay_buffered_events (50 in the code, scaled down)
BatchSize == 2
\* number of send_summary calls answered 200 (caps summaries_sent)
MaxSummaries == 1
\* number of frames the v1 capture loop hands to the uploader
MaxFrames == 3
\* number of buffered payloads the environment may corrupt
MaxCorrupt == 2
\* number of process restarts
MaxRestarts == 1
\* largest retry_count a buffered frame reaches
MaxRetryCount == 2

(***************************************************************************)
(* Delivery outcomes of one requests.post call.                            *)
(***************************************************************************)
\* response.status_code of an accepted request
HTTP_OK == 200
\* a permanent (4xx) and a transient (5xx) rejection
HTTP_UNPROCESSABLE == 422
HTTP_SERVER_ERROR == 500
\* requests.RequestException raised instead of a response
RequestException == -1

Outcomes == {HTTP_OK, HTTP_UNPROCESSABLE, HTTP_SERVER_ERROR, RequestException}

VARIABLES
    node,           \* "v1" (FrameUploader) or "v2" (StatsSender)
    healed,         \* environment: from now on every POST is answered 200
    \* ---- StatsSender (v2) ----
    buffer,         \* table event_buffer, rows in ascending id
    seq,            \* sqlite_sequence of event_buffer (AUTOINCREMENT)
    stats,          \* self._stats
    running,        \* self.running
    due,            \* _sender_loop: replay_interval has elapsed since last_replay
    procPc,         \* processing thread: "idle" or "posting" (inside send_slot_events)
    procEvents,     \* the events argument of the call in progress
    ret,            \* the last send_* call that returned: [op, ok]
    replayPc,       \* replay thread: "idle", "posting", "deleting"
    rows,           \* rows fetched by the replay in progress
    replayRet,      \* value returned by the last replay_buffered_events call
    nextEvent,      \* number of events created so far
    \* ---- collector (server) ----
    acked,          \* events of the requests the collector answered 200
    lastPost,       \* the last /api/v2/events request: its events, its
                    \* is_replay tag and how it was answered
    \* ---- history ----
    returned,       \* events whose send_slot_events call has returned
    idOf,           \* event -> insertion id it was buffered under (0: never)
    txn,            \* rows inserted by the open transaction of _buffer_events,
                    \* not committed yet
    corrupted,      \* number of payloads corrupted so far
    restarts,       \* number of restarts so far
    \* ---- process lifetime (v2) ----
    stopPc,         \* SmartParkEdgeV2.stop: "running" until it is called, then
                    \* its position, "exited" when the process is gone
    procAlive,      \* the processing thread is inside _processing_loop
    senderThread,   \* self._sender_thread: "none", "alive" or "exited"
    loopPc,         \* _processing_loop: the call it makes next ("frame",
                    \* "send_events", "send_summary", "send_log"); "any" when
                    \* StatsSender and the engine are driven by any caller
    \* ---- OccupancyProcessor (v2) ----
    slots,          \* self.slots: slot_id -> SlotState
    now,            \* time.time(), in ticks since construction
    lastEvents,     \* the list the last process_detections call returned
    enter_threshold,    \* self.enter_threshold, in tenths
    exit_threshold,     \* self.exit_threshold, in tenths
    streak,         \* history: per slot, the gated observation of the last
                    \* call, the time of the first call of its unbroken run,
                    \* the calls of the run (up to MaxCalls) and the events
                    \* emitted for the slot during the run
    slots_config,   \* the document at slots_config_path
    capture_resolution, \* self.capture_resolution
    roi_version,    \* self._roi_version
    slot_order,     \* the iteration order of the dict self.slots
    raised,         \* the last process_detections call raised an exception
    lastQuery,      \* the last get_summary / get_all_states call and its value
    \* ---- FrameUploader (v1) ----
    fbuffer,        \* table frame_buffer, rows in ascending id
    fseq,           \* sqlite_sequence of frame_buffer
    fstats,         \* self._stats
    fret,           \* last value returned by upload_frame / replay_buffered_frames
    nextFrame,      \* number of frames captured so far
    facked          \* frames of the requests the server answered 200

senderVars == <<buffer, seq, stats, running, due, procPc, procEvents, ret,
                replayPc, rows, replayRet, nextEvent, acked, lastPost,
                returned, idOf, txn>>
uploaderVars == <<fbuffer, fseq, fstats, fret, nextFrame, facked>>
envVars == <<node, healed, corrupted, restarts>>
lifeVars == <<stopPc, procAlive, senderThread, loopPc>>
loadVars == <<slots_config, capture_resolution, roi_version, slot_order>>
engineVars == <<slots, now, lastEvents, enter_threshold, exit_threshold, streak,
                loadVars, raised, lastQuery>>
vars == <<envVars, lifeVars, engineVars, senderVars, uploaderVars>>

Events == 1..MaxEvents
Frames == 1..MaxFrames

(***************************************************************************)
(* Helpers                                                                 *)
(***************************************************************************)
Range(s) == {s[i] : i \in 1..Len(s)}

Min(a, b) == IF a <= b THEN a ELSE b

RECURSIVE MaxOf(_)
MaxOf(S) == IF S = {} THEN 0
            ELSE LET x == CHOOSE y \in S : TRUE
                     m == MaxOf(S \ {x})
                 IN IF x > m THEN x ELSE m

\* the outcomes the network can produce now
Deliveries == IF healed THEN {HTTP_OK} ELSE Outcomes

\* the collector: it has the events of exactly the requests it answered 200
Collector(have, events, o) == IF o = HTTP_OK THEN have \cup Range(events) ELSE have

\* the sender's test `response.status_code == 200` (a raised RequestException
\* is never a success)
StatusOkMutAccepts4xx(o) == o = HTTP_OK \/ o = HTTP_UNPROCESSABLE
StatusOkMutInverted(o) == o # HTTP_OK
StatusOk(o) == o = HTTP_OK

(***************************************************************************)
(* StatsSender: state after __init__                                       *)
(***************************************************************************)
InitStats == [events_sent |-> 0, events_failed |-> 0, events_buffered |-> 0,
              events_replayed |-> 0, summaries_sent |-> 0]

\* no request made yet
NoPost ==
    [events |-> <<>>, is_replay |-> FALSE, status |-> RequestException,
     by |-> "none"]

NoRet == [op |-> "none", ok |-> TRUE]

InitSender ==
    /\ buffer = <<>>
    /\ seq = 0
    /\ stats = InitStats
    /\ running = FALSE
    /\ due = FALSE
    /\ procPc = "idle"
    /\ procEvents = <<>>
    /\ ret = NoRet
    /\ replayPc = "idle"
    /\ rows = <<>>
    /\ replayRet = 0
    /\ nextEvent = 0
    /\ acked = {}
    /\ lastPost = NoPost
    /\ returned = {}
    /\ idOf = [e \in Events |-> 0]
    /\ txn = <<>>

\* the node is up: _processing_loop runs, stop() has not been called, the
\* sender's thread is not created before start_background_sender
InitLife(pc) ==
    /\ stopPc = "running"
    /\ procAlive = TRUE
    /\ senderThread = "none"
    /\ loopPc = pc

\* the processing thread is about to make the call pos
At(pos) == loopPc \in {"any", pos}

\* the position after a call, pos for a thread inside _processing_loop
Goto(pos) == IF loopPc = "any" THEN "any" ELSE pos

\* the position after a send_* call that returned ok: _processing_loop
\* does not look at the value returned
AfterSendMutRetriesFailure(pos, ok) == IF ok THEN Goto(pos) ELSE loopPc
AfterSend(pos, ok) == Goto(pos)

(***************************************************************************)
(* StatsSender._buffer_events                                              *)
(***************************************************************************)
\* id INTEGER PRIMARY KEY AUTOINCREMENT: one more than the largest id the
\* table has ever held (sqlite_sequence), never the id of a deleted row
NextRowIdMutNoAutoincrement(buf, s) == MaxOf({r.id : r \in Range(buf)}) + 1
NextRowId(buf, s) ==
    LET m == MaxOf({r.id : r \in Range(buf)})
    IN (IF s > m THEN s ELSE m) + 1

\* the INSERT loop of _buffer_events followed by its commit: one row per
\* event, payload json.dumps({'event': event, 'model_version': ...})
RECURSIVE InsertEvents(_, _, _)
InsertEvents(buf, s, events) ==
    IF events = <<>> THEN [buffer |-> buf, seq |-> s]
    ELSE LET id == NextRowId(buf, s)
         IN InsertEvents(Append(buf, [id |-> id, event |-> Head(events), ok |-> TRUE]),
                         id, Tail(events))

BufferEventsMutFirstOnly(buf, s, events) ==
    InsertEvents(buf, s, <<Head(events)>>)

BufferEventsMutNothing(buf, s, events) == [buffer |-> buf, seq |-> s]

BufferEventsMutReversed(buf, s, events) ==
    InsertEvents(buf, s, [i \in 1..Len(events) |-> events[Len(events) + 1 - i]])

BufferEvents(buf, s, events) == InsertEvents(buf, s, events)

(***************************************************************************)
(* StatsSender.replay_buffered_events, its pure parts                      *)
(***************************************************************************)
\* SELECT id, payload FROM event_buffer ORDER BY id LIMIT batch_size
SelectBatchMutNewest(buf, n) == SubSeq(buf, Len(buf) - Min(n, Len(buf)) + 1, Len(buf))
SelectBatch(buf, n) == SubSeq(buf, 1, Min(n, Len(buf)))

\* the decoding loop: json.loads succeeds on a decodable payload
RowDecodable(r) == r.ok

RECURSIVE EventsOf(_)
EventsOf(rs) ==
    IF rs = <<>> THEN <<>>
    ELSE IF RowDecodable(Head(rs)) THEN <<Head(rs).event>> \o EventsOf(Tail(rs))
         ELSE EventsOf(Tail(rs))

events_to_send(rs) == EventsOf(rs)

\* both branches of the decoding loop append row_id
ids_to_delete(rs) == {r.id : r \in Range(rs)}

\* DELETE FROM event_buffer WHERE id = ? for each id, then commit
DeleteIds(buf, ids) ==
    LET Keep(r) == r.id \notin ids IN SelectSeq(buf, Keep)

\* replayed = len(events_to_send)
ReplayedCountMutOne(rs) == 1
ReplayedCount(rs) == Len(events_to_send(rs))

\* get_stats()['buffer_depth']: SELECT COUNT(*) FROM event_buffer
buffer_depth == Len(buffer)


(***************************************************************************)
(* StatsSender.start_background_sender                                     *)
(***************************************************************************)
StartBackgroundSender ==
    /\ node = "v2"
    /\ stopPc = "running"
    /\ ~running
    /\ running' = TRUE
    /\ due' = FALSE
    /\ senderThread' = "alive"
    /\ UNCHANGED <<envVars, engineVars, stopPc, procAlive, loopPc, uploaderVars, buffer, seq, stats, procPc, procEvents,
                   ret, replayPc, rows, replayRet, nextEvent, acked, lastPost,
                   returned, idOf, txn>>

(***************************************************************************)
(* The requests to /events and what the collector makes of them            *)
(***************************************************************************)
\* the JSON body of send_slot_events: it has no is_replay key
LivePayload(events) == [events |-> events, model_version |-> "model"]

\* a replay body without the tag
ReplayPayloadMutUntagged(events) == [events |-> events, model_version |-> "replay"]

\* the JSON body of replay_buffered_events
ReplayPayload(events) ==
    [events |-> events, model_version |-> "replay", is_replay |-> TRUE]

\* the collector's pydantic model: a missing is_replay key reads as False
SlotEventsRequest(p) ==
    [events |-> p.events,
     model_version |-> p.model_version,
     is_replay |-> IF "is_replay" \in DOMAIN p THEN p.is_replay ELSE FALSE]

\* the last request to /events: who made it (by), what the collector parses
\* out of its body, and how it was answered
Request(by, p, o) ==
    [events |-> SlotEventsRequest(p).events,
     is_replay |-> SlotEventsRequest(p).is_replay,
     status |-> o,
     by |-> by]

(***************************************************************************)
(* StatsSender.send_slot_events, called by the processing thread           *)
(***************************************************************************)
\* the n events the occupancy engine emitted for this frame
FreshEvents(n) == [i \in 1..n |-> nextEvent + i]

\* entry: `if not events: return True`, else build the payload and POST it
SendSlotEvents(n) ==
    /\ node = "v2"
    /\ procAlive
    /\ At("send_events")
    /\ loopPc = "any" \/ n = Len(lastEvents)
    /\ loopPc' = loopPc
    /\ procPc = "idle"
    /\ nextEvent + n <= MaxEvents
    /\ nextEvent' = nextEvent + n
    /\ IF n = 0
       THEN /\ ret' = [op |-> "send_slot_events", ok |-> TRUE]
            /\ UNCHANGED <<procPc, procEvents>>
       ELSE /\ procPc' = "posting"
            /\ procEvents' = FreshEvents(n)
            /\ UNCHANGED ret
    /\ UNCHANGED <<envVars, engineVars, stopPc, procAlive, senderThread, uploaderVars, buffer, seq, stats, running, due, replayPc,
                   rows, replayRet, acked, lastPost, returned, idOf, txn>>

\* the rest of the call: the response (or RequestException) arrives and is
\* handled; dbOk = FALSE is sqlite3 raising inside _buffer_events
SendComplete(o, dbOk) ==
    /\ node = "v2"
    /\ procAlive
    /\ loopPc' = AfterSend("send_summary", StatusOk(o))
    /\ procPc = "posting"
    /\ o \in Deliveries
    /\ procPc' = "idle"
    /\ procEvents' = <<>>
    /\ returned' = returned \cup Range(procEvents)
    /\ lastPost' = Request("send_slot_events", LivePayload(procEvents), o)
    /\ acked' = Collector(acked, procEvents, o)
    /\ IF StatusOk(o)
       THEN /\ stats' = [stats EXCEPT !.events_sent = @ + Len(procEvents)]
            /\ ret' = [op |-> "send_slot_events", ok |-> TRUE]
            /\ UNCHANGED <<buffer, seq, idOf>>
       ELSE /\ ret' = [op |-> "send_slot_events", ok |-> FALSE]
            /\ IF dbOk
               THEN LET ins == BufferEvents(buffer, seq, procEvents)
                        new == SubSeq(ins.buffer, Len(buffer) + 1, Len(ins.buffer))
                    IN /\ buffer' = ins.buffer
                       /\ seq' = ins.seq
                       /\ stats' = [stats EXCEPT !.events_buffered = @ + Len(procEvents)]
                       /\ idOf' = [e \in Events |->
                                     IF \E r \in Range(new) : r.event = e
                                     THEN (CHOOSE r \in Range(new) : r.event = e).id
                                     ELSE idOf[e]]
               ELSE /\ stats' = [stats EXCEPT !.events_failed = @ + Len(procEvents)]
                    /\ UNCHANGED <<buffer, seq, idOf>>
    /\ UNCHANGED <<envVars, engineVars, stopPc, procAlive, senderThread, uploaderVars, running, due, replayPc, rows, replayRet,
                   nextEvent, txn>>

(***************************************************************************)
(* send_slot_events and _buffer_events, statement by statement: what       *)
(* SendComplete does in one step, as other connections to the database     *)
(* can observe it                                                          *)
(***************************************************************************)
\* one INSERT of the loop of _buffer_events: sqlite3 opens a transaction
\* before the first INSERT, the row stays in it until conn.commit() and
\* other connections read event_buffer without it
TxnInsertMutAutocommit(buf, t, s, event) ==
    LET row == [id |-> NextRowId(buf \o t, s), event |-> event, ok |-> TRUE]
    IN [buffer |-> Append(buf, row), txn |-> Append(t, row)]
TxnInsert(buf, t, s, event) ==
    LET row == [id |-> NextRowId(buf \o t, s), event |-> event, ok |-> TRUE]
    IN [buffer |-> buf, txn |-> Append(t, row)]

\* the response (or RequestException) arrives: a 200 ends the call, anything
\* else enters _buffer_events
SendResponse(o) ==
    /\ node = "v2"
    /\ procAlive
    /\ procPc = "posting"
    /\ o \in Deliveries
    /\ lastPost' = Request("send_slot_events", LivePayload(procEvents), o)
    /\ acked' = Collector(acked, procEvents, o)
    /\ IF StatusOk(o)
       THEN /\ loopPc' = AfterSend("send_summary", TRUE)
            /\ procPc' = "idle"
            /\ procEvents' = <<>>
            /\ returned' = returned \cup Range(procEvents)
            /\ stats' = [stats EXCEPT !.events_sent = @ + Len(procEvents)]
            /\ ret' = [op |-> "send_slot_events", ok |-> TRUE]
       ELSE /\ procPc' = "buffering"
            /\ UNCHANGED <<loopPc, procEvents, returned, stats, ret>>
    /\ UNCHANGED <<envVars, engineVars, stopPc, procAlive, senderThread, uploaderVars, running, due, replayPc, rows, replayRet,
                   nextEvent, buffer, seq, idOf, txn>>

\* the next INSERT of the loop
BufferInsert ==
    /\ node = "v2"
    /\ procAlive
    /\ procPc = "buffering"
    /\ Len(txn) < Len(procEvents)
    /\ LET ins == TxnInsert(buffer, txn, seq, procEvents[Len(txn) + 1])
       IN /\ buffer' = ins.buffer
          /\ txn' = ins.txn
    /\ UNCHANGED <<envVars, engineVars, lifeVars, uploaderVars, seq, stats, running, due, procPc,
                   procEvents, ret, replayPc, rows, replayRet, nextEvent, acked,
                   lastPost, returned, idOf>>

\* conn.commit(): the rows of the transaction are in event_buffer; then the
\* counter, and send_slot_events returns False
BufferCommit ==
    /\ node = "v2"
    /\ procAlive
    /\ procPc = "buffering"
    /\ Len(txn) = Len(procEvents)
    /\ loopPc' = AfterSend("send_summary", FALSE)
    /\ procPc' = "idle"
    /\ procEvents' = <<>>
    /\ returned' = returned \cup Range(procEvents)
    /\ ret' = [op |-> "send_slot_events", ok |-> FALSE]
    /\ buffer' = buffer \o txn
    /\ seq' = txn[Len(txn)].id
    /\ txn' = <<>>
    /\ stats' = [stats EXCEPT !.events_buffered = @ + Len(procEvents)]
    /\ idOf' = [e \in Events |->
                  IF \E r \in Range(txn) : r.event = e
                  THEN (CHOOSE r \in Range(txn) : r.event = e).id
                  ELSE idOf[e]]
    /\ UNCHANGED <<envVars, engineVars, stopPc, procAlive, senderThread, uploaderVars, running, due, replayPc, rows, replayRet,
                   nextEvent, acked, lastPost>>

\* a statement of _buffer_events raises (sqlite3.connect, json.dumps, an
\* INSERT or the commit): `except Exception` counts the batch as failed, and
\* the connection is dropped with its transaction, which is rolled back
BufferAbort ==
    /\ node = "v2"
    /\ procAlive
    /\ procPc = "buffering"
    /\ loopPc' = AfterSend("send_summary", FALSE)
    /\ procPc' = "idle"
    /\ procEvents' = <<>>
    /\ returned' = returned \cup Range(procEvents)
    /\ ret' = [op |-> "send_slot_events", ok |-> FALSE]
    /\ txn' = <<>>
    /\ stats' = [stats EXCEPT !.events_failed = @ + Len(procEvents)]
    /\ UNCHANGED <<envVars, engineVars, stopPc, procAlive, senderThread, uploaderVars, running, due, replayPc, rows, replayRet,
                   nextEvent, acked, lastPost, buffer, seq, idOf>>

(***************************************************************************)
(* StatsSender.send_summary / send_health / send_processing_log            *)
(***************************************************************************)
\* the counters after a summary request answered o: only a 200 is counted,
\* a failure changes nothing (no _buffer_events call in send_summary)
SummaryStatsMutCountAll(st, o) == [st EXCEPT !.summaries_sent = @ + 1]
SummaryStats(st, o) ==
    IF StatusOk(o) THEN [st EXCEPT !.summaries_sent = @ + 1] ELSE st

SendSummary(o) ==
    /\ node = "v2"
    /\ procAlive
    /\ At("send_summary")
    /\ loopPc' = AfterSend("send_log", StatusOk(o))
    /\ procPc = "idle"
    /\ o \in Deliveries
    /\ StatusOk(o) => stats.summaries_sent < MaxSummaries
    /\ stats' = SummaryStats(stats, o)
    /\ ret' = [op |-> "send_summary", ok |-> StatusOk(o)]
    /\ UNCHANGED <<envVars, engineVars, stopPc, procAlive, senderThread, uploaderVars, buffer, seq, running, due, procPc, procEvents,
                   replayPc, rows, replayRet, nextEvent, acked, lastPost,
                   returned, idOf, txn>>

\* called from the health monitor's thread
SendHealth(o) ==
    /\ node = "v2"
    /\ stopPc # "exited"
    /\ o \in Deliveries
    /\ ret' = [op |-> "send_health", ok |-> StatusOk(o)]
    /\ UNCHANGED <<envVars, engineVars, lifeVars, uploaderVars, buffer, seq, stats, running, due, procPc,
                   procEvents, replayPc, rows, replayRet, nextEvent, acked,
                   lastPost, returned, idOf, txn>>

\* a processing-log send whose failure is counted as a failed event
SendProcessingLogMutCounts(o) ==
    /\ node = "v2"
    /\ procAlive
    /\ At("send_log")
    /\ loopPc' = AfterSend("frame", StatusOk(o))
    /\ procPc = "idle"
    /\ o \in Deliveries
    /\ ret' = [op |-> "send_processing_log", ok |-> StatusOk(o)]
    /\ stats' = IF StatusOk(o) THEN stats
                ELSE [stats EXCEPT !.events_failed = @ + 1]
    /\ UNCHANGED <<envVars, engineVars, stopPc, procAlive, senderThread, uploaderVars, buffer, seq, running, due, procPc,
                   procEvents, replayPc, rows, replayRet, nextEvent, acked,
                   lastPost, returned, idOf, txn>>

SendProcessingLog(o) ==
    /\ node = "v2"
    /\ procAlive
    /\ At("send_log")
    /\ loopPc' = AfterSend("frame", StatusOk(o))
    /\ procPc = "idle"
    /\ o \in Deliveries
    /\ ret' = [op |-> "send_processing_log", ok |-> StatusOk(o)]
    /\ UNCHANGED <<envVars, engineVars, stopPc, procAlive, senderThread, uploaderVars, buffer, seq, stats, running, due, procPc,
                   procEvents, replayPc, rows, replayRet, nextEvent, acked,
                   lastPost, returned, idOf, txn>>

(***************************************************************************)
(* StatsSender._sender_loop -> replay_buffered_events (replay thread)      *)
(***************************************************************************)
\* _sender_loop sleeps until replay_interval has elapsed since last_replay
SenderLoopTick ==
    /\ node = "v2"
    /\ senderThread = "alive"
    /\ running
    /\ replayPc = "idle"
    /\ ~due
    /\ due' = TRUE
    /\ UNCHANGED <<envVars, engineVars, lifeVars, uploaderVars, buffer, seq, stats, running, procPc,
                   procEvents, ret, replayPc, rows, replayRet, nextEvent, acked,
                   lastPost, returned, idOf, txn>>

\* the loop has passed its `while self.running` test and its timer test
\* (SenderLoopTick) and calls replay_buffered_events, whatever self.running
\* has become since (last_replay is set anew when the call is over); the
\* call SELECTs its batch and decodes it; with no rows, or with no decodable
\* row, it returns 0 without a request
ReplayRead ==
    /\ node = "v2"
    /\ senderThread = "alive"
    /\ due
    /\ due' = FALSE
    /\ replayPc = "idle"
    /\ LET rs == SelectBatch(buffer, BatchSize)
       IN IF rs = <<>> \/ events_to_send(rs) = <<>>
          THEN /\ replayRet' = 0
               /\ UNCHANGED <<replayPc, rows>>
          ELSE /\ replayPc' = "posting"
               /\ rows' = rs
               /\ UNCHANGED replayRet
    /\ UNCHANGED <<envVars, engineVars, lifeVars, uploaderVars, buffer, seq, stats, running, procPc,
                   procEvents, ret, nextEvent, acked, lastPost, returned, idOf, txn>>

\* the replay POST is answered: 200 leads to the DELETE, anything else
\* (non-200 is ignored, RequestException is logged) to `return 0`
ReplayResponse(o) ==
    /\ node = "v2"
    /\ senderThread = "alive"
    /\ replayPc = "posting"
    /\ o \in Deliveries
    /\ lastPost' = Request("replay_buffered_events",
                        ReplayPayload(events_to_send(rows)), o)
    /\ acked' = Collector(acked, events_to_send(rows), o)
    /\ IF StatusOk(o)
       THEN /\ replayPc' = "deleting"
            /\ UNCHANGED <<rows, replayRet>>
       ELSE /\ replayPc' = "idle"
            /\ rows' = <<>>
            /\ replayRet' = 0
    /\ UNCHANGED <<envVars, engineVars, lifeVars, uploaderVars, buffer, seq, stats, running, due, procPc,
                   procEvents, ret, nextEvent, returned, idOf, txn>>

\* executemany(DELETE ...) and commit, then the counter; dbOk = FALSE is
\* sqlite3 raising, caught by the outer `except Exception`; while a
\* transaction of _buffer_events holds the write lock the DELETE waits for
\* its end (or raises `database is locked`)
ReplayDelete(dbOk) ==
    /\ node = "v2"
    /\ senderThread = "alive"
    /\ replayPc = "deleting"
    /\ dbOk => txn = <<>>
    /\ replayPc' = "idle"
    /\ rows' = <<>>
    /\ IF dbOk
       THEN /\ buffer' = DeleteIds(buffer, ids_to_delete(rows))
            /\ replayRet' = ReplayedCount(rows)
            /\ stats' = [stats EXCEPT !.events_replayed = @ + ReplayedCount(rows)]
       ELSE /\ replayRet' = 0
            /\ UNCHANGED <<buffer, stats>>
    /\ UNCHANGED <<envVars, engineVars, lifeVars, uploaderVars, seq, running, due, procPc, procEvents, ret,
                   nextEvent, acked, lastPost, returned, idOf, txn>>


(***************************************************************************)
(* Shutdown: SmartParkEdgeV2.stop, StatsSender.stop and the end of the     *)
(* process (v2 edge node)                                                  *)
(***************************************************************************)
\* seconds: Thread.join(timeout=5.0) in both stop methods, and the timeout
\* of every requests.post of StatsSender
JoinTimeout == 5
RequestTimeout == 10

\* SmartParkEdgeV2.running
appRunning == stopPc = "running"

\* join(timeout) returns when the thread has ended or the timeout has
\* passed; a thread that is not inside a request ends within a second
\* (time.sleep(1), frame_queue.get(timeout=1.0)), one that is inside a
\* request may stay there for RequestTimeout
JoinReturns(ended, inRequest) ==
    ended \/ (inRequest /\ JoinTimeout < RequestTimeout)

\* stop(): self.running = False
Stop ==
    /\ node = "v2"
    /\ stopPc = "running"
    /\ stopPc' = "join_processing"
    /\ UNCHANGED <<envVars, engineVars, procAlive, senderThread, loopPc, senderVars, uploaderVars>>

\* `while self.running` of _processing_loop is false: the thread ends
ProcessingLoopExit ==
    /\ node = "v2"
    /\ procAlive
    /\ ~appRunning
    /\ procPc = "idle"
    /\ At("frame")
    /\ procAlive' = FALSE
    /\ UNCHANGED <<envVars, engineVars, stopPc, senderThread, loopPc, senderVars, uploaderVars>>

\* stop(): self._processing_thread.join(timeout=5.0) returns
JoinProcessing ==
    /\ stopPc = "join_processing"
    /\ JoinReturns(~procAlive, procPc = "posting")
    /\ stopPc' = "stop_sender"
    /\ UNCHANGED <<envVars, engineVars, procAlive, senderThread, loopPc, senderVars, uploaderVars>>

\* StatsSender.stop(): self.running = False
StatsSenderStop ==
    /\ stopPc = "stop_sender"
    /\ running' = FALSE
    /\ stopPc' = "join_sender"
    /\ UNCHANGED <<envVars, engineVars, procAlive, senderThread, loopPc, uploaderVars, buffer, seq,
                   stats, due, procPc, procEvents, ret, replayPc, rows,
                   replayRet, nextEvent, acked, lastPost, returned, idOf, txn>>

\* `while self.running` of _sender_loop is false: the thread ends
SenderLoopExit ==
    /\ senderThread = "alive"
    /\ ~running
    /\ replayPc = "idle"
    /\ ~due
    /\ senderThread' = "exited"
    /\ UNCHANGED <<envVars, engineVars, stopPc, procAlive, loopPc, senderVars, uploaderVars>>

\* StatsSender.stop(): self._sender_thread.join(timeout=5.0) returns (there
\* is no thread to join if start_background_sender was never called)
JoinSender ==
    /\ stopPc = "join_sender"
    /\ JoinReturns(senderThread # "alive", replayPc = "posting")
    /\ stopPc' = "done"
    /\ UNCHANGED <<envVars, engineVars, procAlive, senderThread, loopPc, senderVars, uploaderVars>>

\* stop() has returned and main's signal handler calls sys.exit(0): the
\* interpreter ends, and both threads, created with daemon=True, end with it
\* wherever they are
ProcessExit ==
    /\ stopPc = "done"
    /\ stopPc' = "exited"
    /\ procAlive' = FALSE
    /\ senderThread' = IF senderThread = "alive" THEN "exited" ELSE senderThread
    /\ UNCHANGED <<envVars, engineVars, loopPc, senderVars, uploaderVars>>

(***************************************************************************)
(* FrameUploader (v1 edge node)                                            *)
(***************************************************************************)
\* LIMIT of the SELECT in replay_buffered_frames (100 in the code, scaled down)
FrameBatch == 2

InitFStats == [uploaded |-> 0, failed |-> 0, buffered |-> 0, replayed |-> 0]

InitUploader ==
    /\ fbuffer = <<>>
    /\ fseq = 0
    /\ fstats = InitFStats
    /\ fret = [op |-> "none", ok |-> TRUE, n |-> 0]
    /\ nextFrame = 0
    /\ facked = {}

\* _buffer_frame: one INSERT and its commit
BufferFrame(buf, s, f) ==
    LET id == NextRowId(buf, s)
    IN [buffer |-> Append(buf, [id |-> id, frame |-> f, retry_count |-> 0]),
        seq |-> id]

\* upload_frame(frame); dbOk = FALSE is sqlite3 raising inside _buffer_frame
UploadFrame(o, dbOk) ==
    /\ node = "v1"
    /\ nextFrame < MaxFrames
    /\ o \in Deliveries
    /\ nextFrame' = nextFrame + 1
    /\ facked' = Collector(facked, <<nextFrame + 1>>, o)
    /\ LET f == nextFrame + 1
           ins == BufferFrame(fbuffer, fseq, f)
           failed == IF o = RequestException THEN 1 ELSE 0
       IN IF StatusOk(o)
          THEN /\ fstats' = [fstats EXCEPT !.uploaded = @ + 1]
               /\ fret' = [op |-> "upload_frame", ok |-> TRUE, n |-> 0]
               /\ UNCHANGED <<fbuffer, fseq>>
          ELSE /\ fret' = [op |-> "upload_frame", ok |-> FALSE, n |-> 0]
               /\ IF dbOk
                  THEN /\ fbuffer' = ins.buffer
                       /\ fseq' = ins.seq
                       /\ fstats' = [fstats EXCEPT !.buffered = @ + 1,
                                                   !.failed = @ + failed]
                  ELSE /\ fstats' = [fstats EXCEPT !.failed = @ + failed]
                       /\ UNCHANGED <<fbuffer, fseq>>
    /\ UNCHANGED <<envVars, engineVars, lifeVars, senderVars>>

\* the loop of replay_buffered_frames over the selected rows rs, of which
\* the first k are uploaded: each of them is DELETEd, and the next one, if
\* any, has its retry_count incremented before the `break`;
\* _try_upload_buffered does not call _buffer_frame
ReplayedFrameBufferMutRebuffers(buf, rs, k) ==
    LET done == {rs[i].id : i \in 1..k}
        Bump(r) == IF k < Len(rs) /\ r.id = rs[k + 1].id
                   THEN [r EXCEPT !.retry_count = @ + 1] ELSE r
        Keep(r) == r.id \notin done
        kept == SelectSeq(buf, Keep)
        again == IF k < Len(rs)
                 THEN <<[id |-> buf[Len(buf)].id + 1, frame |-> rs[k + 1].frame,
                         retry_count |-> 0]>>
                 ELSE <<>>
    IN [i \in 1..Len(kept) |-> Bump(kept[i])] \o again
ReplayedFrameBuffer(buf, rs, k) ==
    LET done == {rs[i].id : i \in 1..k}
        Bump(r) == IF k < Len(rs) /\ r.id = rs[k + 1].id
                   THEN [r EXCEPT !.retry_count = @ + 1] ELSE r
        Keep(r) == r.id \notin done
        kept == SelectSeq(buf, Keep)
    IN [i \in 1..Len(kept) |-> Bump(kept[i])]

\* replay_buffered_frames: the rows are uploaded one at a time in ascending
\* id; the first k uploads succeed (_try_upload_buffered returns True), the
\* next one, if any is left, fails and ends the loop; then the commit
ReplayBufferedFrames(k) ==
    /\ node = "v1"
    /\ LET rs == SelectBatch(fbuffer, FrameBatch)
       IN /\ k \in 0..Len(rs)
          /\ k < Len(rs) => ~healed
          /\ k < Len(rs) => rs[k + 1].retry_count < MaxRetryCount
          /\ fbuffer' = ReplayedFrameBuffer(fbuffer, rs, k)
          /\ facked' = facked \cup {rs[i].frame : i \in 1..k}
          /\ fstats' = [fstats EXCEPT !.replayed = @ + k]
          /\ fret' = [op |-> "replay_buffered_frames", ok |-> TRUE, n |-> k]
    /\ UNCHANGED <<envVars, engineVars, lifeVars, senderVars, fseq, nextFrame>>

(***************************************************************************)
(* OccupancyProcessor (v2 edge node): slots, hysteresis and debounce       *)
(***************************************************************************)
\* the clock is read in ticks, TicksPerSecond of them to the second
TicksPerSecond == 2
\* debounce_seconds, in ticks (3.0 s in the code, scaled down)
Debounce == 2
\* largest value of the clock
MaxTime == 4
\* the calls of one run of equal gated observations are counted up to here
MaxCalls == 3
\* largest number of detections in one frame
MaxDetections == 2

\* confidences are counted in tenths: 1.0 is One
One == 10

\* the slots of the configuration file of the tests, in the order of the file
SlotOrder == <<"A", "B">>
SlotIds == Range(SlotOrder)

\* the polygons of the model are squares of side 100 with sides parallel to
\* the axes, their vertices listed from the corner of the least x and y, as
\* in the configuration file of the tests
Square(x, y) == << <<x, y>>, <<x + 100, y>>, <<x + 100, y + 100>>, <<x, y + 100>> >>

\* sample_slots_config of the tests: TEST_001 is A, TEST_002 is B
ImageSize == <<1920, 1080>>
\* the default of capture_resolution
DefaultResolution == <<1920, 1080>>
SlotDefA == [slot_id |-> "A", poly |-> Square(100, 100)]
SlotDefB == [slot_id |-> "B", poly |-> Square(300, 100)]
TestSlotsConfig ==
    [file |-> "json",
     config |-> [roi_version |-> "test_v1", image_size |-> ImageSize,
                 slots |-> <<SlotDefA, SlotDefB>>]]

\* _load_slots: scaled_points; scale_x and scale_y are the quotients
\* capture_resolution / image_size of each axis, kept here as the pair of
\* numerator and denominator (the coordinates of the model scale to whole
\* numbers)
ScaledPointMutOneScale(p, res, size) ==
    <<(p[1] * res[1]) \div size[1], (p[2] * res[1]) \div size[1]>>
ScaledPoint(p, res, size) ==
    <<(p[1] * res[1]) \div size[1], (p[2] * res[2]) \div size[2]>>

ScaledPoints(points, res, size) ==
    [i \in 1..Len(points) |-> ScaledPoint(points[i], res, size)]

\* slot_def['slot_id'] or slot_def['poly'] raises KeyError
SlotDefRaises(slot_def) == ~({"slot_id", "poly"} \subseteq DOMAIN slot_def)

\* _load_slots, the loop over config['slots']: the entries of self.slots in
\* the order of their insertion, up to the first slot_def that raises
RECURSIVE LoadSlotDefs(_, _, _, _)
LoadSlotDefs(defs, res, size, loaded) ==
    IF defs = <<>> THEN [loaded |-> loaded, error |-> FALSE]
    ELSE IF SlotDefRaises(Head(defs)) THEN [loaded |-> loaded, error |-> TRUE]
    ELSE LET entry == [slot_id |-> Head(defs).slot_id,
                       polygon |-> ScaledPoints(Head(defs).poly, res, size)]
             at == {i \in 1..Len(loaded) : loaded[i].slot_id = entry.slot_id}
         IN LoadSlotDefs(Tail(defs), res, size,
                         IF at = {} THEN Append(loaded, entry)
                         ELSE [i \in 1..Len(loaded) |->
                                 IF i \in at THEN entry ELSE loaded[i]])

\* _load_slots(config_path): what it leaves in self.slots and in
\* self._roi_version ("unset" when it never assigns it), and whether it
\* logged an error; it never raises (try / except Exception)
LoadSlots(doc, res) ==
    IF doc.file = "missing"
    THEN [loaded |-> <<>>, error |-> FALSE, roi_version |-> "unset"]
    ELSE IF doc.file = "unparsable"
    THEN [loaded |-> <<>>, error |-> TRUE, roi_version |-> "unset"]
    ELSE LET config == doc.config
             roi == IF "roi_version" \in DOMAIN config THEN config.roi_version ELSE "v1"
             size == IF "image_size" \in DOMAIN config THEN config.image_size ELSE res
         IN IF size[1] = 0 \/ size[2] = 0
            THEN [loaded |-> <<>>, error |-> TRUE, roi_version |-> roi]
            ELSE LET r == LoadSlotDefs(IF "slots" \in DOMAIN config
                                       THEN config.slots ELSE <<>>,
                                       res, size, <<>>)
                 IN [loaded |-> r.loaded, error |-> r.error, roi_version |-> roi]

\* the polygon loaded for slot sid
PolygonOf(loaded, sid) ==
    loaded[CHOOSE i \in 1..Len(loaded) : loaded[i].slot_id = sid].polygon

\* shapely's Polygon.contains(Point): the point is in the interior
Contains(poly, p) ==
    /\ poly[1][1] < p.x /\ p.x < poly[3][1]
    /\ poly[1][2] < p.y /\ p.y < poly[3][2]

\* the (enter_threshold, exit_threshold) pairs of the configurations: the
\* defaults 0.6 / 0.4, and an exit_threshold above 1.0
Configs == {<<6, 4>>, <<6, 11>>}

\* the detections a frame may hold: a center inside A, inside B or in no
\* slot's interior (on the left edge of A), with a confidence of 0.5 or 0.9
Centers == {[x |-> 150, y |-> 150], [x |-> 350, y |-> 150],
            [x |-> 100, y |-> 150]}
Confidences == {5, 9}
Detection == [center : Centers, confidence : Confidences]
Frame == UNION {[1..n -> Detection] : n \in 0..MaxDetections}

\* SlotState(slot_id, polygon) created at time t; None is "none", resp. -1
NewSlotStateMutFree(poly, t) ==
    [polygon |-> poly,
     current_state |-> "free", confidence |-> 0, last_change |-> t,
     pending_state |-> "none", pending_since |-> -1, dwell_start |-> t]
NewSlotState(poly, t) ==
    [polygon |-> poly,
     current_state |-> "unknown", confidence |-> 0, last_change |-> t,
     pending_state |-> "none", pending_since |-> -1, dwell_start |-> t]

\* self.slots after _load_slots at time t
LoadedSlots(loaded, t) ==
    [sid \in {loaded[i].slot_id : i \in 1..Len(loaded)} |->
        NewSlotState(PolygonOf(loaded, sid), t)]

NoQuery == [op |-> "none"]

NoStreak == [obs |-> "none", since |-> 0, calls |-> 0, emitted |-> 0]

\* OccupancyProcessor.__init__ at time 0: self._roi_version is assigned
\* "v1" after _load_slots has returned
InitOccupancy(cfg, doc, res) ==
    /\ slots_config = doc
    /\ capture_resolution = res
    /\ slots = LoadedSlots(LoadSlots(doc, res).loaded, 0)
    /\ slot_order = [i \in 1..Len(LoadSlots(doc, res).loaded) |->
                        LoadSlots(doc, res).loaded[i].slot_id]
    /\ roi_version = "v1"
    /\ now = 0
    /\ lastEvents = <<>>
    /\ raised = FALSE
    /\ lastQuery = NoQuery
    /\ enter_threshold = cfg[1]
    /\ exit_threshold = cfg[2]
    /\ streak = [sid \in DOMAIN slots |-> NoStreak]

\* process_detections, first loop: slot_occupancy and slot_confidence
slot_occupancy(dets, sid) ==
    \E i \in 1..Len(dets) : Contains(slots[sid].polygon, dets[i].center)

slot_confidence(dets, sid) ==
    LET inside == {dets[i].confidence : i \in
                     {j \in 1..Len(dets) : Contains(slots[sid].polygon, dets[j].center)}}
    IN IF inside = {} THEN 0
       ELSE CHOOSE m \in inside : \A c \in inside : c <= m

\* process_detections, second loop: what is handed to _update_slot_state
ObservedStateMutStaysUnknown(dets, sid) ==
    IF slot_occupancy(dets, sid) THEN "occupied"
    ELSE IF slots[sid].current_state = "unknown" THEN "unknown" ELSE "free"
ObservedStateMutUnknownWhenEmpty(dets, sid) ==
    IF slot_occupancy(dets, sid) THEN "occupied"
    ELSE IF dets = <<>> THEN "unknown" ELSE "free"
ObservedState(dets, sid) == IF slot_occupancy(dets, sid) THEN "occupied" ELSE "free"

ObservedConfidenceMutFrameComplement(dets, sid) ==
    IF slot_occupancy(dets, sid) THEN slot_confidence(dets, sid)
    ELSE IF dets = <<>> THEN One
         ELSE One - MaxOf({dets[i].confidence : i \in 1..Len(dets)})
ObservedConfidenceMutComplement(dets, sid) == One - slot_confidence(dets, sid)
ObservedConfidence(dets, sid) ==
    IF slot_occupancy(dets, sid) THEN slot_confidence(dets, sid)
    ELSE One - slot_confidence(dets, sid)

\* _update_slot_state, hysteresis: the observation after the thresholds
GatedMutNoEnterGate(slot, new_state, confidence, enter, exit) ==
    IF slot.current_state = "occupied" /\ new_state = "free"
    THEN (IF confidence < exit THEN "occupied" ELSE new_state)
    ELSE new_state
GatedMutNoExitGate(slot, new_state, confidence, enter, exit) ==
    IF slot.current_state = "free" /\ new_state = "occupied"
    THEN (IF confidence < enter THEN "free" ELSE new_state)
    ELSE new_state
GatedMutGatesUnknown(slot, new_state, confidence, enter, exit) ==
    IF slot.current_state \in {"free", "unknown"} /\ new_state = "occupied"
    THEN (IF confidence < enter THEN "free" ELSE new_state)
    ELSE IF slot.current_state = "occupied" /\ new_state = "free"
         THEN (IF confidence < exit THEN "occupied" ELSE new_state)
         ELSE new_state
Gated(slot, new_state, confidence, enter, exit) ==
    IF slot.current_state = "free" /\ new_state = "occupied"
    THEN (IF confidence < enter THEN "free" ELSE new_state)
    ELSE IF slot.current_state = "occupied" /\ new_state = "free"
         THEN (IF confidence < exit THEN "occupied" ELSE new_state)
         ELSE new_state

\* _update_slot_state, the test of the debounce window
DebounceElapsedMutAlways(current_time, pending_since) == TRUE
DebounceElapsedMutNever(current_time, pending_since) == FALSE
DebounceElapsed(current_time, pending_since) ==
    current_time - pending_since >= Debounce

\* _update_slot_state, dwell_s: the whole seconds since dwell_start
DwellSecondsMutAfterUpdate(current_time, dwell_start) == 0
DwellSeconds(current_time, dwell_start) ==
    (current_time - dwell_start) \div TicksPerSecond

\* _update_slot_state: pending_state = None, pending_since = None
ClearPendingMutKeepsSince(slot) == [slot EXCEPT !.pending_state = "none"]
ClearPending(slot) == [slot EXCEPT !.pending_state = "none", !.pending_since = -1]

\* _update_slot_state: the slot afterwards and the event returned (a list of
\* one event, or none)
UpdateSlotState(slot, sid, observed, confidence, current_time, enter, exit, roi) ==
    LET new_state == Gated(slot, observed, confidence, enter, exit)
    IN IF new_state # slot.current_state
       THEN IF slot.pending_state # new_state
            THEN [slot |-> [slot EXCEPT !.pending_state = new_state,
                                        !.pending_since = current_time,
                                        !.confidence = confidence],
                  event |-> <<>>]
            ELSE IF DebounceElapsed(current_time, slot.pending_since)
                 THEN [slot |-> [ClearPending(slot) EXCEPT
                                             !.current_state = new_state,
                                             !.last_change = current_time,
                                             !.dwell_start = current_time],
                       event |-> << [slot_id |-> sid,
                                     state |-> new_state,
                                     previous_state |-> slot.current_state,
                                     confidence |-> confidence,
                                     dwell_s |-> DwellSeconds(current_time, slot.dwell_start),
                                     roi_version |-> roi] >>]
                 ELSE [slot |-> slot, event |-> <<>>]
       ELSE [slot |-> [ClearPending(slot) EXCEPT !.confidence = confidence],
             event |-> <<>>]

\* the events of one call, in the iteration order of self.slots
RECURSIVE CollectEvents(_, _)
CollectEvents(order, upd) ==
    IF order = <<>> THEN <<>>
    ELSE upd[Head(order)].event \o CollectEvents(Tail(order), upd)

\* process_detections(detections, timestamp) at time.time() = now
\* a detection that raises: detection['center'] is read for every
\* detection, detection['confidence'] for those a polygon contains
\* (KeyError)
DetectionRaises(d) ==
    \/ "center" \notin DOMAIN d
    \/ /\ "confidence" \notin DOMAIN d
       /\ \E sid \in DOMAIN slots : Contains(slots[sid].polygon, d.center)

Raises(dets) == \E i \in 1..Len(dets) : DetectionRaises(dets[i])

\* a call that raises does so in its first loop, before any slot is
\* updated; _processing_loop logs the exception and goes on to the next
\* frame
ProcessDetections(dets) ==
    /\ node = "v2"
    /\ procAlive
    /\ At("frame")
    /\ IF Raises(dets)
       THEN /\ raised' = TRUE
            /\ loopPc' = Goto("frame")
            /\ UNCHANGED <<slots, lastEvents, streak>>
       ELSE \E upd \in {[sid \in DOMAIN slots |->
                     UpdateSlotState(slots[sid], sid, ObservedState(dets, sid),
                                     ObservedConfidence(dets, sid), now,
                                     enter_threshold, exit_threshold, roi_version)]},
          gated \in {[sid \in DOMAIN slots |->
                       Gated(slots[sid], ObservedState(dets, sid),
                             ObservedConfidence(dets, sid),
                             enter_threshold, exit_threshold)]} :
          /\ raised' = FALSE
          /\ slots' = [sid \in DOMAIN slots |-> upd[sid].slot]
          /\ lastEvents' = CollectEvents(slot_order, upd)
          /\ loopPc' = Goto(IF CollectEvents(slot_order, upd) # <<>>
                            THEN "send_events" ELSE "send_summary")
          /\ streak' = [sid \in DOMAIN slots |->
                          IF streak[sid].obs = gated[sid]
                          THEN [streak[sid] EXCEPT
                                   !.calls = Min(@ + 1, MaxCalls),
                                   !.emitted = @ + Len(upd[sid].event)]
                          ELSE [obs |-> gated[sid], since |-> now, calls |-> 1,
                                emitted |-> Len(upd[sid].event)]]
    /\ UNCHANGED <<envVars, stopPc, procAlive, senderThread, senderVars, uploaderVars, now,
                   enter_threshold, exit_threshold, loadVars, lastQuery>>

\* a second passes
Tick ==
    /\ node = "v2"
    /\ now < MaxTime
    /\ now' = now + 1
    /\ UNCHANGED <<envVars, lifeVars, senderVars, uploaderVars, slots, lastEvents,
                   enter_threshold, exit_threshold, streak, loadVars, raised, lastQuery>>

\* get_summary: the counters of the three states and len(self.slots)
CountStateMutPending(st) ==
    Cardinality({sid \in DOMAIN slots : slots[sid].current_state = st
                                   \/ slots[sid].pending_state = st})
CountState(st) ==
    Cardinality({sid \in DOMAIN slots : slots[sid].current_state = st})

get_summary ==
    [free_count |-> CountState("free"),
     occupied_count |-> CountState("occupied"),
     unknown_count |-> CountState("unknown"),
     total_slots |-> Cardinality(DOMAIN slots),
     roi_version |-> roi_version]

\* get_all_states: state, confidence and last_change of every slot
get_all_states ==
    [sid \in DOMAIN slots |->
        [state |-> slots[sid].current_state,
         confidence |-> slots[sid].confidence,
         last_change |-> slots[sid].last_change]]

\* a caller asks for the summary, resp. for the states
GetSummaryMutClearsPending ==
    /\ node = "v2"
    /\ stopPc # "exited"
    /\ lastQuery' = [op |-> "get_summary", value |-> get_summary]
    /\ slots' = [sid \in DOMAIN slots |->
                   [slots[sid] EXCEPT !.pending_state = "none", !.pending_since = -1]]
    /\ UNCHANGED <<envVars, lifeVars, senderVars, uploaderVars, now, lastEvents,
                   enter_threshold, exit_threshold, streak, loadVars, raised>>

GetSummary ==
    /\ node = "v2"
    /\ stopPc # "exited"
    /\ lastQuery' = [op |-> "get_summary", value |-> get_summary]
    /\ UNCHANGED <<envVars, lifeVars, senderVars, uploaderVars, slots, now, lastEvents,
                   enter_threshold, exit_threshold, streak, loadVars, raised>>

GetAllStates ==
    /\ node = "v2"
    /\ stopPc # "exited"
    /\ lastQuery' = [op |-> "get_all_states", value |-> get_all_states]
    /\ UNCHANGED <<envVars, lifeVars, senderVars, uploaderVars, slots, now, lastEvents,
                   enter_threshold, exit_threshold, streak, loadVars, raised>>

(***************************************************************************)
(* Environment                                                             *)
(***************************************************************************)
\* the outage ends: every later request is answered 200
Heal ==
    /\ ~healed
    /\ healed' = TRUE
    /\ UNCHANGED <<node, corrupted, restarts, engineVars, lifeVars, senderVars, uploaderVars>>

\* a persisted payload becomes undecodable (json.loads will raise)
CorruptPayload(i) ==
    /\ node = "v2"
    /\ corrupted < MaxCorrupt
    /\ i \in 1..Len(buffer)
    /\ buffer[i].ok
    /\ buffer' = [buffer EXCEPT ![i].ok = FALSE]
    /\ corrupted' = corrupted + 1
    /\ UNCHANGED <<node, healed, restarts, engineVars, lifeVars, uploaderVars, seq, stats, running, due,
                   procPc, procEvents, ret, replayPc, rows, replayRet, nextEvent,
                   acked, lastPost, returned, idOf, txn>>

\* the process dies and is started again: __init__ runs over the database
\* file the dead process left (CREATE TABLE IF NOT EXISTS keeps its rows)
Restart ==
    /\ restarts < MaxRestarts
    /\ restarts' = restarts + 1
    /\ stats' = InitStats
    /\ running' = FALSE
    /\ due' = FALSE
    /\ procPc' = "idle"
    /\ procEvents' = <<>>
    /\ ret' = NoRet
    /\ replayPc' = "idle"
    /\ rows' = <<>>
    /\ replayRet' = 0
    /\ fstats' = InitFStats
    /\ fret' = [op |-> "none", ok |-> TRUE, n |-> 0]
    /\ stopPc' = "running"
    /\ procAlive' = TRUE
    /\ senderThread' = "none"
    /\ loopPc' = Goto("frame")
    /\ slots' = LoadedSlots(LoadSlots(slots_config, capture_resolution).loaded, now)
    /\ lastEvents' = <<>>
    /\ raised' = FALSE
    /\ lastQuery' = NoQuery
    /\ txn' = <<>>
    /\ streak' = [sid \in DOMAIN slots |-> NoStreak]
    /\ UNCHANGED <<node, healed, corrupted, buffer, seq, nextEvent, acked, lastPost,
                   returned, idOf, fbuffer, fseq, nextFrame, facked, now,
                   enter_threshold, exit_threshold, loadVars>>

(***************************************************************************)
(* Specifications                                                          *)
(***************************************************************************)
\* the thresholds of OccupancyConfig when the file names none
DefaultConfig == <<6, 4>>

InitNode(pc) ==
    /\ healed = FALSE
    /\ corrupted = 0
    /\ restarts = 0
    /\ InitSender
    /\ InitUploader
    /\ InitLife(pc)

Init ==
    /\ node \in {"v1", "v2"}
    /\ InitNode("any")
    /\ InitOccupancy(DefaultConfig, TestSlotsConfig, DefaultResolution)

\* the node under network faults only: the database works, the process lives
Next ==
    \/ StartBackgroundSender
    \/ \E n \in 0..MaxBatch : SendSlotEvents(n)
    \/ \E o \in Outcomes : SendComplete(o, TRUE)
    \/ \E o \in Outcomes : SendSummary(o)
    \/ \E o \in Outcomes : SendHealth(o)
    \/ \E o \in Outcomes : SendProcessingLog(o)
    \/ SenderLoopTick
    \/ ReplayRead
    \/ \E o \in Outcomes : ReplayResponse(o)
    \/ ReplayDelete(TRUE)
    \/ \E o \in Outcomes : UploadFrame(o, TRUE)
    \/ \E k \in 0..FrameBatch : ReplayBufferedFrames(k)
    \/ Heal

Spec == Init /\ [][Next]_vars

\* network faults and a shutdown of the v2 node
NextStop ==
    \/ Next
    \/ Stop
    \/ ProcessingLoopExit
    \/ JoinProcessing
    \/ StatsSenderStop
    \/ SenderLoopExit
    \/ JoinSender
    \/ ProcessExit

SpecStop == Init /\ [][NextStop]_vars

\* the occupancy engine of a v2 node alone, under every configuration of
\* its thresholds: frames arrive and time passes
InitEngine ==
    /\ node = "v2"
    /\ InitNode("any")
    /\ \E cfg \in Configs : InitOccupancy(cfg, TestSlotsConfig, DefaultResolution)

NextEngine ==
    \/ \E dets \in Frame : ProcessDetections(dets)
    \/ Tick

SpecEngine == InitEngine /\ [][NextEngine]_vars

\* _processing_loop of a v2 node: each frame goes through the occupancy
\* engine, its events to send_slot_events, then send_summary and
\* send_processing_log, under any delivery outcomes, while time passes
InitLoop ==
    /\ node = "v2"
    /\ InitNode("frame")
    /\ InitOccupancy(DefaultConfig, TestSlotsConfig, DefaultResolution)

\* the frames of the camera: an empty lot, or one vehicle inside slot A,
\* detected with confidence 0.9 or 0.5
LoopFrames ==
    {<<>>} \cup {<<[center |-> [x |-> 150, y |-> 150], confidence |-> c]>> :
                    c \in Confidences}

NextLoop ==
    \/ \E dets \in LoopFrames : ProcessDetections(dets)
    \/ \E n \in 1..MaxBatch : SendSlotEvents(n)
    \/ \E o \in Outcomes : SendComplete(o, TRUE)
    \/ \E o \in Outcomes : SendSummary(o)
    \/ \E o \in Outcomes : SendProcessingLog(o)
    \/ Tick
    \/ Heal

SpecLoop == InitLoop /\ [][NextLoop]_vars

\* the processor of the tests: enter_threshold = exit_threshold = 0.5, the
\* configuration file of the tests, the default capture_resolution; its
\* debounce_seconds of 0.1 s is Debounce, its sleep of 0.2 s 2 * Debounce
TestConfig == <<5, 5>>

\* the detections of the tests: a center inside A, a center outside every
\* polygon; and malformed ones: no center, no confidence
DetInA == [center |-> [x |-> 150, y |-> 150], confidence |-> 9]
DetOutside == [center |-> [x |-> 500, y |-> 500], confidence |-> 9]
\* more well-formed ones: a center on the left edge of A, on a vertex of A,
\* and inside A with the confidence 0.5
DetOnEdgeOfA == [center |-> [x |-> 100, y |-> 150], confidence |-> 9]
DetOnVertexOfA == [center |-> [x |-> 200, y |-> 200], confidence |-> 9]
DetInALow == [center |-> [x |-> 150, y |-> 150], confidence |-> 5]
DetNoCenter == [confidence |-> 9]
DetNoConfidenceInA == [center |-> [x |-> 150, y |-> 150]]
DetNoConfidenceOutside == [center |-> [x |-> 500, y |-> 500]]

WellFormedFrames == {<<>>, <<DetInA>>, <<DetOutside>>, <<DetOnEdgeOfA>>,
                     <<DetOnVertexOfA>>, <<DetInA, DetInALow>>, <<DetOnEdgeOfA, DetInALow>>}
MalformedFrames == {<<DetNoCenter>>, <<DetNoConfidenceInA>>, <<DetNoConfidenceOutside>>,
                    <<DetInA, DetNoCenter>>}
TestFrames == WellFormedFrames \cup MalformedFrames

InitTest ==
    /\ node = "v2"
    /\ InitNode("any")
    /\ InitOccupancy(TestConfig, TestSlotsConfig, DefaultResolution)

NextTest ==
    \/ \E dets \in TestFrames : ProcessDetections(dets)
    \/ Tick
    \/ GetSummary
    \/ GetAllStates

SpecTest == InitTest /\ [][NextTest]_vars

\* the slot configuration documents: the file may be missing or not be
\* JSON; a JSON document may lack each of its keys, name an image_size of
\* width 0, and list up to MaxSlotDefs slots, each well-formed or lacking
\* its poly
MaxSlotDefs == 2
SlotDefNoPoly == [slot_id |-> "B"]
SlotDefs == {SlotDefA, SlotDefB, SlotDefNoPoly}
SlotLists == UNION {[1..n -> SlotDefs] : n \in 0..MaxSlotDefs}
Documents ==
    {[file |-> "missing"], [file |-> "unparsable"]}
    \cup {[file |-> "json", config |-> c] :
            c \in [roi_version : {"test_v1"}, image_size : {ImageSize, <<0, 1080>>},
                   slots : SlotLists]
                  \cup [image_size : {ImageSize}, slots : SlotLists]
                  \cup [roi_version : {"test_v1"}, slots : SlotLists]
                  \cup {[roi_version |-> "test_v1", image_size |-> ImageSize]}}

\* the capture resolutions: that of the documents, half of it on both axes,
\* half of it on the x axis only
Resolutions == {DefaultResolution, <<960, 540>>, <<960, 1080>>}

\* a center inside A once A is scaled by one half
DetInHalfA == [center |-> [x |-> 75, y |-> 75], confidence |-> 9]
LoadFrames == {<<>>, <<DetInA>>, <<DetInHalfA>>}

\* an OccupancyProcessor built from any of the documents at any of the
\* resolutions, then driven by any caller
InitLoad ==
    /\ node = "v2"
    /\ InitNode("any")
    /\ \E doc \in Documents, res \in Resolutions : InitOccupancy(TestConfig, doc, res)

NextLoad ==
    \/ \E dets \in LoadFrames : ProcessDetections(dets)
    \/ Tick

SpecLoad == InitLoad /\ [][NextLoad]_vars

InitBuffering ==
    /\ node = "v2"
    /\ InitNode("any")
    /\ InitOccupancy(DefaultConfig, TestSlotsConfig, DefaultResolution)

\* the event path with _buffer_events taken statement by statement, under
\* network faults, database errors and restarts
NextBuffering ==
    \/ StartBackgroundSender
    \/ \E n \in 0..MaxBatch : SendSlotEvents(n)
    \/ \E o \in Outcomes : SendResponse(o)
    \/ BufferInsert
    \/ BufferCommit
    \/ BufferAbort
    \/ SenderLoopTick
    \/ ReplayRead
    \/ \E o \in Outcomes : ReplayResponse(o)
    \/ \E dbOk \in BOOLEAN : ReplayDelete(dbOk)
    \/ Heal
    \/ Restart

SpecBuffering == InitBuffering /\ [][NextBuffering]_vars

\* the replay thread keeps running: its timer fires, its request ends within
\* the timeout, its transaction commits
ReplayThread ==
    \/ SenderLoopTick
    \/ ReplayRead
    \/ \E o \in Outcomes : ReplayResponse(o)
    \/ ReplayDelete(TRUE)

Fairness == WF_vars(ReplayThread)

\* the event path alone: the sends of summaries, health snapshots and
\* processing logs and the v1 uploader never touch event_buffer
NextEvents ==
    \/ StartBackgroundSender
    \/ \E n \in 0..MaxBatch : SendSlotEvents(n)
    \/ \E o \in Outcomes : SendComplete(o, TRUE)
    \/ SenderLoopTick
    \/ ReplayRead
    \/ \E o \in Outcomes : ReplayResponse(o)
    \/ ReplayDelete(TRUE)
    \/ Heal

SpecLive == Init /\ [][NextEvents]_vars /\ Fairness

\* network faults and undecodable payloads
NextCorrupt ==
    \/ Next
    \/ \E i \in 1..MaxEvents : CorruptPayload(i)

\* the event path with undecodable payloads, the replay thread running
NextEventsCorrupt ==
    \/ NextEvents
    \/ \E i \in 1..MaxEvents : CorruptPayload(i)

SpecCorruptLive == Init /\ [][NextEventsCorrupt]_vars /\ Fairness

\* network faults, undecodable payloads, database errors and restarts
NextFaults ==
    \/ NextCorrupt
    \/ \E o \in Outcomes : SendComplete(o, FALSE)
    \/ ReplayDelete(FALSE)
    \/ \E o \in Outcomes : UploadFrame(o, FALSE)
    \/ Restart

SpecFaults == Init /\ [][NextFaults]_vars


(***************************************************************************)
(* Properties                                                              *)
(***************************************************************************)
InBuffer(e) == \E r \in Range(buffer) : r.event = e

\* the step in which a send_slot_events call with events returns
SendReturns == procPc = "posting" /\ procPc' = "idle"

\* the step in which a replay ends after its request failed
ReplayFails == replayPc = "posting" /\ replayPc' = "idle"

\* the step in which a replay commits its DELETE and returns
ReplayDeletes == replayPc = "deleting" /\ replayPc' = "idle"

\* C1: no event is lost: every event of a send_slot_events call that has
\* returned has been acknowledged by the collector (200) or is a record of
\* the buffer, in every state reached by later sends and replays under any
\* mix of delivery outcomes
C1_NoEventLost ==
    \A e \in returned : e \in acked \/ InBuffer(e)

\* C1 witness: after interleaved sends and replays, one returned event is
\* still only in the buffer and another one, once buffered, was replayed
\* with a 200 and deleted
C1_Witness ==
    /\ \E e \in returned : e \notin acked /\ InBuffer(e)
    /\ \E e \in returned : idOf[e] # 0 /\ e \in acked /\ ~InBuffer(e)
    /\ \E e \in returned : idOf[e] = 0 /\ e \in acked

\* C2: once every request is answered 200 and the replay loop keeps running,
\* every buffered record is eventually delivered and deleted: buffer_depth
\* reaches 0 and every event that was ever buffered is acknowledged
C2_BufferDrains ==
    (healed /\ running) ~>
        (buffer_depth = 0 /\ \A e \in Events : idOf[e] # 0 => e \in acked)

\* C2 witness: the outage is over and a backlog larger than one batch has
\* been replayed completely
C2_Witness ==
    /\ healed /\ running
    /\ buffer_depth = 0
    /\ stats.events_replayed > BatchSize
    /\ \A e \in Events : idOf[e] # 0 /\ e \in acked

\* C3: the buffer is drained only by confirmed success: a record leaves the
\* buffer only in the DELETE of a replay whose request, covering that record,
\* was answered 200; a replay whose request failed (non-200 or
\* RequestException) changes no record and no buffer_depth, and the next
\* replay reads the same oldest records again
C3_DrainedOnlyBySuccess ==
    [][ /\ \A r \in Range(buffer) \ Range(buffer') :
              /\ ReplayDeletes
              /\ r \in Range(rows)
              /\ r.event \in acked
        /\ \A i \in 1..Len(buffer) :
              i <= Len(buffer') /\ buffer'[i].id = buffer[i].id
                  => buffer'[i] = buffer[i]
        /\ ReplayFails =>
              /\ buffer' = buffer
              /\ SubSeq(SelectBatch(buffer', BatchSize), 1, Len(rows)) = rows
      ]_vars

\* C3 witness: a replay has just failed and the records it read are all
\* still in the buffer, unacknowledged
C3_Witness ==
    /\ replayPc = "idle"
    /\ lastPost.is_replay
    /\ lastPost.status # HTTP_OK
    /\ Len(lastPost.events) = BatchSize
    /\ \A e \in Range(lastPost.events) : InBuffer(e) /\ e \notin acked

\* C4: a successful replay deletes exactly the records it read: records
\* appended by a failed send while the replay request was in flight stay in
\* the buffer, and no insertion id is ever given to two different records
C4_ExactDelete ==
    [][ /\ ReplayDeletes =>
              /\ Range(rows) \subseteq Range(buffer)
              /\ Range(buffer') = Range(buffer) \ Range(rows)
        /\ \A e1, e2 \in Events :
              (e1 # e2 /\ idOf'[e1] # 0 /\ idOf'[e2] # 0) => idOf'[e1] # idOf'[e2]
        /\ \A r \in Range(buffer') : idOf'[r.event] = r.id
      ]_vars

\* C4 witness: a replay read a batch that was not full, delivered and
\* deleted it, and the buffer holds a record that a failed send appended
\* while that replay was in flight (no live request was made after the
\* replay's)
C4_Witness ==
    /\ replayPc = "idle"
    /\ replayRet = 1
    /\ BatchSize > 1
    /\ lastPost.is_replay /\ lastPost.status = HTTP_OK
    /\ procPc = "idle"
    /\ buffer # <<>>

\* C5: buffer round-trip: a replay answered 200 removes the records it
\* delivered and adds their number to events_replayed and returns it; with a
\* buffer of one record persisted by a failed send, buffer_depth goes from 1
\* to 0 and events_replayed grows by exactly one
C5_RoundTrip ==
    [][ ReplayDeletes =>
          LET removed == Range(buffer) \ Range(buffer')
          IN /\ removed = Range(rows)
             /\ Len(buffer') = Len(buffer) - Cardinality(removed)
             /\ stats'.events_replayed = stats.events_replayed + Cardinality(removed)
             /\ replayRet' = Cardinality(removed)
             /\ (Len(buffer) = 1 /\ Len(rows) = 1) =>
                    /\ buffer' = <<>>
                    /\ stats'.events_replayed = stats.events_replayed + 1
      ]_vars

\* C5 witness: one failed send of one event, then one successful replay
C5_Witness ==
    /\ stats.events_buffered = 1
    /\ stats.events_replayed = 1
    /\ replayRet = 1
    /\ buffer_depth = 0
    /\ \E e \in Events : idOf[e] # 0 /\ e \in acked


HasCorrupt == \E r \in Range(buffer) : ~r.ok

\* C7: an undecodable record is dropped rather than kept forever: with the
\* replay loop running and every request answered 200, a buffer that holds
\* an undecodable record eventually holds none
C7_CorruptDropped ==
    (healed /\ running /\ HasCorrupt) ~> ~HasCorrupt

\* the step in which upload_frame returns
UploadReturns == nextFrame' = nextFrame + 1

\* C8: a failed immediate delivery (any non-200 status, or a
\* RequestException) of an event batch or of a frame returns False, persists
\* the record in the buffer and increases the buffered counter
C8_FailureBuffers ==
    [][ /\ (SendReturns /\ lastPost'.status # HTTP_OK) =>
              /\ ret' = [op |-> "send_slot_events", ok |-> FALSE]
              /\ \A e \in Range(procEvents) : \E r \in Range(buffer') : r.event = e
              /\ Len(buffer') = Len(buffer) + Len(procEvents)
              /\ stats'.events_buffered = stats.events_buffered + Len(procEvents)
        /\ (UploadReturns /\ nextFrame' \notin facked') =>
              /\ fret'.op = "upload_frame" /\ ~fret'.ok
              /\ \E r \in Range(fbuffer') : r.frame = nextFrame'
              /\ Len(fbuffer') = Len(fbuffer) + 1
              /\ fstats'.buffered = fstats.buffered + 1
      ]_vars

\* C8 witness: a batch of two events was answered 422 (a permanent error)
\* and both events are records of the buffer
C8_Witness ==
    /\ ret = [op |-> "send_slot_events", ok |-> FALSE]
    /\ ~lastPost.is_replay
    /\ lastPost.status = HTTP_UNPROCESSABLE
    /\ Len(lastPost.events) = MaxBatch
    /\ \A e \in Range(lastPost.events) : InBuffer(e)
    /\ stats.events_buffered = MaxBatch

\* C9: an immediate delivery answered 200 returns True and increases the
\* sent counter (uploaded for frames); the buffer and every other counter
\* stay as they were
C9_SuccessOnlyCounts ==
    [][ /\ (SendReturns /\ lastPost'.status = HTTP_OK) =>
              /\ ret' = [op |-> "send_slot_events", ok |-> TRUE]
              /\ buffer' = buffer
              /\ stats' = [stats EXCEPT !.events_sent = @ + Len(procEvents)]
        /\ (UploadReturns /\ nextFrame' \in facked') =>
              /\ fret'.op = "upload_frame" /\ fret'.ok
              /\ fbuffer' = fbuffer
              /\ fstats' = [fstats EXCEPT !.uploaded = @ + 1]
      ]_vars

\* C9 witness: a batch was answered 200 while the buffer held a record, and
\* the counters show that send only
C9_Witness ==
    /\ ret = [op |-> "send_slot_events", ok |-> TRUE]
    /\ ~lastPost.is_replay
    /\ lastPost.status = HTTP_OK
    /\ stats.events_sent = Len(lastPost.events)
    /\ stats.events_sent > 0
    /\ stats.events_buffered = 1
    /\ buffer_depth = 1
    /\ procPc = "idle"

\* the step in which a send_summary, send_health or send_processing_log call
\* returns False
SnapshotFails(ops) == ret' # ret /\ ret'.op \in ops /\ ~ret'.ok

C11_ProcessingLogSwallowed ==
    [][ /\ SnapshotFails({"send_processing_log"}) =>
              /\ ret' = [op |-> "send_processing_log", ok |-> FALSE]
              /\ buffer' = buffer
              /\ seq' = seq
              /\ stats' = stats
              /\ <<replayPc', rows', due'>> = <<replayPc, rows, due>>
        /\ lastPost'.is_replay =>
              \A e \in Range(lastPost'.events) : idOf'[e] # 0
      ]_vars

\* C11 witness: a processing-log send has failed while a record was
\* buffered; a later replay delivered that record only and emptied the
\* buffer, and the counters show the one event alone
C11_Witness ==
    /\ ret = [op |-> "send_processing_log", ok |-> FALSE]
    /\ lastPost.is_replay /\ lastPost.status = HTTP_OK
    /\ Len(lastPost.events) = 1
    /\ buffer = <<>>
    /\ stats = [InitStats EXCEPT !.events_buffered = 1, !.events_replayed = 1]

\* C12: every request made by replay_buffered_events reaches the collector
\* tagged is_replay = true, and no request made by send_slot_events is
\* tagged as a replay: the collector tells backfilled events from live ones
C12_ReplayTagged ==
    /\ lastPost.by = "replay_buffered_events" => lastPost.is_replay
    /\ lastPost.by = "send_slot_events" => ~lastPost.is_replay

\* C12 witness: an event that a live request failed to deliver has just been
\* delivered by a tagged replay request, after a live, untagged request
\* delivered another event
C12_Witness ==
    /\ lastPost.by = "replay_buffered_events"
    /\ lastPost.is_replay
    /\ lastPost.status = HTTP_OK
    /\ \E e \in Range(lastPost.events) : idOf[e] # 0 /\ e \in acked
    /\ \E e \in acked : idOf[e] = 0

\* the ids of a list of records
Ids(rs) == {rs[i].id : i \in 1..Len(rs)}

\* the step in which a replay has read its batch and goes on to deliver it
ReplayReads == replayPc = "idle" /\ replayPc' = "posting"

\* C13: replay follows insertion order: a replay reads, leaving the buffer
\* as it is, the min(batch_size, buffer_depth) records with the smallest
\* ids, in ascending id; its request carries their events in that order; and
\* no record is deleted while a record with a smaller id stays in the buffer
C13_InsertionOrder ==
    [][ /\ ReplayReads =>
              /\ buffer' = buffer
              /\ Len(rows') = Min(BatchSize, buffer_depth)
              /\ Range(rows') \subseteq Range(buffer)
              /\ \A i, j \in 1..Len(rows') : i < j => rows'[i].id < rows'[j].id
              /\ \A r \in Range(buffer) \ Range(rows') :
                     \A q \in Range(rows') : q.id < r.id
        /\ (replayPc = "posting" /\ replayPc' # "posting") =>
              /\ Len(lastPost'.events) = Len(rows)
              /\ \A i \in 1..Len(rows) : lastPost'.events[i] = rows[i].event
        /\ \A r \in Range(buffer) \ Range(buffer') :
               \A q \in Range(buffer') : q.id > r.id
      ]_vars

\* C13 witness: with more records buffered than one batch holds, a replay
\* has delivered the oldest batch_size of them in ascending id and deleted
\* them; the records left are younger than all of them
C13_Witness ==
    /\ replayPc = "idle"
    /\ lastPost.by = "replay_buffered_events" /\ lastPost.status = HTTP_OK
    /\ Len(lastPost.events) = BatchSize
    /\ BatchSize > 1
    /\ \A i, j \in 1..Len(lastPost.events) :
           i < j => idOf[lastPost.events[i]] < idOf[lastPost.events[j]]
    /\ \A e \in Range(lastPost.events) : ~InBuffer(e)
    /\ buffer # <<>>
    /\ \A r \in Range(buffer) : \A e \in Range(lastPost.events) : idOf[e] < r.id

\* the step in which the replay thread, the processing thread ends
SenderThreadEnds == senderThread = "alive" /\ senderThread' = "exited"
ProcessingThreadEnds == procAlive /\ ~procAlive'

\* C14: cooperative stop: once the replay loop has seen the stop flag no
\* replay starts; a request in flight has been answered when its loop ends;
\* when the process is gone both loops have ended; and the buffer only ever
\* changes by a whole batch written or a whole batch deleted
C14_CooperativeStop ==
    [][ /\ senderThread = "exited" => <<replayPc', rows', due'>> = <<replayPc, rows, due>>
        /\ SenderThreadEnds => replayPc = "idle"
        /\ ProcessingThreadEnds => procPc = "idle"
        /\ stopPc' = "exited" => ~procAlive' /\ senderThread' # "alive"
        /\ buffer' # buffer =>
              \/ /\ SendReturns
                 /\ Len(buffer') = Len(buffer) + Len(procEvents)
                 /\ \A e \in Range(procEvents) : \E r \in Range(buffer') : r.event = e
              \/ /\ ReplayDeletes
                 /\ Range(buffer') = Range(buffer) \ Range(rows)
      ]_vars

\* C14, the part about the loops alone: a loop that leaves through its
\* `while self.running` test has no request in flight and starts no replay
\* afterwards, and the buffer changes by whole batches
C14_LoopsCooperative ==
    [][ /\ senderThread = "exited" => <<replayPc', rows', due'>> = <<replayPc, rows, due>>
        /\ (SenderThreadEnds /\ stopPc' # "exited") => replayPc = "idle"
        /\ (ProcessingThreadEnds /\ stopPc' # "exited") => procPc = "idle"
        /\ stopPc' = "exited" => ~procAlive' /\ senderThread' # "alive"
        /\ buffer' # buffer =>
              \/ /\ SendReturns
                 /\ Len(buffer') = Len(buffer) + Len(procEvents)
                 /\ \A e \in Range(procEvents) : \E r \in Range(buffer') : r.event = e
              \/ /\ ReplayDeletes
                 /\ Range(buffer') = Range(buffer) \ Range(rows)
      ]_vars

\* C16: after any sequence of process_detections calls the summary has
\* free_count + occupied_count + unknown_count = total_slots, and
\* total_slots is the number of slots loaded at construction
C16_SummaryAddsUp ==
    /\ get_summary.free_count + get_summary.occupied_count
           + get_summary.unknown_count = get_summary.total_slots
    /\ get_summary.total_slots = Len(SlotOrder)

\* C16 witness: after calls that confirmed transitions, one slot is
\* occupied, another one is free, and a transition is pending on one of them
C16_Witness ==
    /\ get_summary.occupied_count = 1
    /\ get_summary.free_count = 1
    /\ get_summary.unknown_count = 0
    /\ \E sid \in SlotIds : slots[sid].pending_state # "none"

\* a step that is a process_detections call which changed something
CallStep == now' = now /\ <<slots', lastEvents', streak'>> # <<slots, lastEvents, streak>>

\* the call of this step returns an event for slot sid
Emits(sid) ==
    CallStep /\ \E i \in 1..Len(lastEvents') : lastEvents'[i].slot_id = sid

\* the event for slot sid among a call's events
EventFor(evs, sid) == evs[CHOOSE i \in 1..Len(evs) : evs[i].slot_id = sid]

\* C17: debounce lower bound: a call confirms a transition of a slot to S
\* only if S has been the slot's gated observation in every call since the
\* pending window was opened, this call included, and at least Debounce
\* seconds have passed since that opening; a call whose gated observation
\* is the current state closes the window, one whose gated observation
\* differs from the pending state opens it anew at the time of the call
C17_DebounceLowerBound ==
    [][ \A sid \in SlotIds :
          /\ Emits(sid) =>
                LET S == EventFor(lastEvents', sid).state
                IN /\ streak[sid].obs = S
                   /\ streak'[sid].obs = S
                   /\ streak'[sid].since = streak[sid].since
                   /\ slots[sid].pending_state = S
                   /\ slots[sid].pending_since = streak[sid].since
                   /\ now - streak[sid].since >= Debounce
                   /\ slots'[sid].current_state = S
          /\ (CallStep /\ streak'[sid].obs = slots[sid].current_state) =>
                /\ ~Emits(sid)
                /\ slots'[sid].pending_state = "none"
                /\ slots'[sid].pending_since = -1
          /\ (CallStep /\ streak'[sid].obs # slots[sid].current_state
                       /\ streak'[sid].obs # slots[sid].pending_state) =>
                /\ ~Emits(sid)
                /\ slots'[sid].pending_state = streak'[sid].obs
                /\ slots'[sid].pending_since = now
      ]_vars

\* C17 witness: a transition to Occupied has just been confirmed by the
\* last of at least MaxCalls calls that observed Occupied without a break,
\* Debounce seconds or more after the first of them
C17_Witness ==
    \E sid \in SlotIds :
        /\ \E i \in 1..Len(lastEvents) :
              /\ lastEvents[i].slot_id = sid
              /\ lastEvents[i].state = "occupied"
              /\ lastEvents[i].previous_state = "free"
        /\ streak[sid].obs = "occupied"
        /\ streak[sid].calls = MaxCalls
        /\ streak[sid].emitted = 1
        /\ slots[sid].last_change = now
        /\ now - streak[sid].since >= Debounce

\* the number of events for slot sid in a list of events
EventsFor(evs, sid) == Cardinality({i \in 1..Len(evs) : evs[i].slot_id = sid})

\* C18: the debounce fires exactly once: a call whose gated observation is
\* the pending state S, made Debounce seconds or more after the window was
\* opened, returns exactly one event for the slot, to S; and in one unbroken
\* run of the gated observation S, however many calls it has, no more than
\* one event is emitted for the slot
C18_DebounceFiresOnce ==
    [][ \A sid \in SlotIds :
          /\ ( /\ now' = now
               /\ slots[sid].pending_state # "none"
               /\ streak'[sid].obs = slots[sid].pending_state
               /\ now - slots[sid].pending_since >= Debounce ) =>
                /\ EventsFor(lastEvents', sid) = 1
                /\ EventFor(lastEvents', sid).state = slots[sid].pending_state
                /\ streak[sid].emitted = 0
          /\ now' = now => EventsFor(lastEvents', sid) <= 1
          /\ streak'[sid].emitted <= 1
          /\ (now' = now /\ streak[sid].emitted = 1
                /\ streak'[sid].obs = streak[sid].obs) => ~Emits(sid)
      ]_vars

\* C18 witness: in a run of MaxCalls or more calls that observed Free on a
\* slot that was not Free, one call confirmed the transition, and the last call,
\* made later with the same observation, returned no event for the slot
C18_Witness ==
    \E sid \in SlotIds :
        /\ streak[sid].obs = "free"
        /\ streak[sid].calls = MaxCalls
        /\ streak[sid].emitted = 1
        /\ slots[sid].current_state = "free"
        /\ slots[sid].last_change - streak[sid].since >= Debounce
        /\ slots[sid].last_change < now
        /\ EventsFor(lastEvents, sid) = 0

\* what a process_detections call with the frame dets would do to slot sid
\* in the present state
CallOn(sid, dets) ==
    UpdateSlotState(slots[sid], sid, ObservedState(dets, sid),
                    ObservedConfidence(dets, sid), now,
                    enter_threshold, exit_threshold, roi_version)

\* C19: enter hysteresis: whenever a slot is Free, a call whose detections
\* inside the slot all have a confidence below enter_threshold leaves it
\* Free with no pending window and returns no event for it, whatever the
\* time of the call and whatever window was pending; and no event ever
\* reports a transition from Free to Occupied at a confidence below
\* enter_threshold
C19_EnterHysteresis ==
    /\ \A sid \in SlotIds : slots[sid].current_state = "free" =>
          \A dets \in Frame :
              (slot_occupancy(dets, sid) /\ slot_confidence(dets, sid) < enter_threshold)
                  => /\ CallOn(sid, dets).event = <<>>
                     /\ CallOn(sid, dets).slot.current_state = "free"
                     /\ CallOn(sid, dets).slot.pending_state = "none"
    /\ \A i \in 1..Len(lastEvents) :
          (lastEvents[i].previous_state = "free" /\ lastEvents[i].state = "occupied")
              => lastEvents[i].confidence >= enter_threshold

\* C19 witness: a slot has been Free for Debounce seconds or more over
\* MaxCalls calls or more, and the last call found a detection of confidence
\* 0.5 inside it, below the enter_threshold of 0.6: the slot is Free, with
\* no pending window
C19_Witness ==
    \E sid \in SlotIds :
        /\ slots[sid].current_state = "free"
        /\ slots[sid].pending_state = "none"
        /\ slots[sid].confidence = 5
        /\ slots[sid].confidence < enter_threshold
        /\ streak[sid].obs = "free"
        /\ streak[sid].calls = MaxCalls
        /\ streak[sid].emitted = 0
        /\ now - streak[sid].since >= Debounce
        /\ EventsFor(lastEvents, sid) = 0

\* C20: exit hysteresis: whenever a slot is Occupied, a call that observes
\* it Free with a confidence below exit_threshold leaves it Occupied with no
\* pending window and returns no event for it, whatever the time of the
\* call and whatever window was pending
C20_ExitHysteresis ==
    \A sid \in SlotIds : slots[sid].current_state = "occupied" =>
        \A dets \in Frame :
            (~slot_occupancy(dets, sid) /\ ObservedConfidence(dets, sid) < exit_threshold)
                => /\ CallOn(sid, dets).event = <<>>
                   /\ CallOn(sid, dets).slot.current_state = "occupied"
                   /\ CallOn(sid, dets).slot.pending_state = "none"

\* C20 witness: with an exit_threshold above 1.0, an Occupied slot has been
\* observed Free, at confidence 1.0, by the last call, Debounce seconds or
\* more after it became Occupied: it is Occupied, with no pending window
C20_Witness ==
    \E sid \in SlotIds :
        /\ exit_threshold > One
        /\ slots[sid].current_state = "occupied"
        /\ slots[sid].pending_state = "none"
        /\ slots[sid].confidence = One
        /\ streak[sid].obs = "occupied"
        /\ streak[sid].calls = MaxCalls
        /\ now - slots[sid].last_change >= Debounce
        /\ EventsFor(lastEvents, sid) = 0

\* C21: initial-state bypass: a slot whose current_state is Unknown is not
\* gated by the thresholds: whatever a call observes on it, at whatever
\* confidence, that observation opens a pending window at the time of the
\* call unless the window is already open for it; and the call that makes
\* the same observation Debounce seconds or more after the opening takes
\* the slot from Unknown to the observed state, with exactly one event
C21_UnknownBypass ==
    \A sid \in SlotIds : slots[sid].current_state = "unknown" =>
        \A dets \in Frame :
            LET obs == ObservedState(dets, sid)
                conf == ObservedConfidence(dets, sid)
                res == CallOn(sid, dets)
            IN /\ Gated(slots[sid], obs, conf, enter_threshold, exit_threshold) = obs
               /\ slots[sid].pending_state # obs =>
                     /\ res.event = <<>>
                     /\ res.slot.current_state = "unknown"
                     /\ res.slot.pending_state = obs
                     /\ res.slot.pending_since = now
               /\ (slots[sid].pending_state = obs
                   /\ now - slots[sid].pending_since >= Debounce) =>
                     /\ Len(res.event) = 1
                     /\ res.event[1].state = obs
                     /\ res.event[1].previous_state = "unknown"
                     /\ res.event[1].confidence = conf
                     /\ res.slot.current_state = obs
                     /\ res.slot.pending_state = "none"
               /\ (slots[sid].pending_state = obs
                   /\ now - slots[sid].pending_since < Debounce) =>
                     /\ res.event = <<>>
                     /\ res.slot = slots[sid]

\* C21 witness: the last call took a slot from Unknown to Occupied at a
\* confidence below enter_threshold, Debounce seconds or more after the
\* first Occupied observation
C21_Witness ==
    \E sid \in SlotIds :
        /\ EventsFor(lastEvents, sid) = 1
        /\ EventFor(lastEvents, sid).previous_state = "unknown"
        /\ EventFor(lastEvents, sid).state = "occupied"
        /\ EventFor(lastEvents, sid).confidence < enter_threshold
        /\ slots[sid].current_state = "occupied"
        /\ streak[sid].obs = "occupied"
        /\ streak[sid].calls >= 2
        /\ now - streak[sid].since >= Debounce
\* what a call with detections dets returns
CallEvents(dets) == CollectEvents(slot_order, [sid \in DOMAIN slots |-> CallOn(sid, dets)])

\* no call has been made since construction
Fresh == \A sid \in DOMAIN slots : streak[sid].calls = 0

\* one call has been made, at time t0, and it found slot sid in state obs
AfterFirstCall(sid, obs, t0) ==
    /\ \A other \in DOMAIN slots : streak[other].calls = 1 /\ streak[other].since = t0
    /\ streak[sid].obs = obs

\* C22: the end-to-end scenario of the tests (slots A and B, debounce 0.1 s,
\* enter_threshold = exit_threshold = 0.5, one detection at (150, 150) with
\* confidence 0.9): the first call returns no event and leaves A pending
\* Occupied; the second call, two debounce windows later with the same
\* detection, returns the event {A, occupied, previous unknown, 0.9} and A
\* is Occupied
C22_EndToEnd ==
    /\ Fresh =>
          /\ CallEvents(<<DetInA>>) = <<>>
          /\ CallOn("A", <<DetInA>>).slot.current_state = "unknown"
          /\ CallOn("A", <<DetInA>>).slot.pending_state = "occupied"
    /\ \A t0 \in 0..MaxTime :
          (AfterFirstCall("A", "occupied", t0) /\ now = t0 + 2 * Debounce) =>
              /\ slots["A"].pending_state = "occupied"
              /\ slots["A"].pending_since = t0
              /\ EventsFor(CallEvents(<<DetInA>>), "A") = 1
              /\ LET e == EventFor(CallEvents(<<DetInA>>), "A")
                 IN /\ e.state = "occupied"
                    /\ e.previous_state = "unknown"
                    /\ e.confidence = 9
              /\ CallOn("A", <<DetInA>>).slot.current_state = "occupied"

\* C22 witness: the second call of the scenario has returned the event and A
\* is Occupied
C22_Witness ==
    /\ now = 2 * Debounce
    /\ streak["A"] = [obs |-> "occupied", since |-> 0, calls |-> 2, emitted |-> 1]
    /\ EventsFor(lastEvents, "A") = 1
    /\ EventFor(lastEvents, "A").state = "occupied"
    /\ EventFor(lastEvents, "A").previous_state = "unknown"
    /\ EventFor(lastEvents, "A").confidence = 9
    /\ slots["A"].current_state = "occupied"
    /\ slots["A"].last_change = now

\* C23: a slot in Unknown that no detection touches is observed Free, and
\* the call opens a pending window to Free on it; in the end-to-end scenario
\* B is pending Free after the first call, no call made before the debounce
\* window has elapsed returns an event for it, and the first call made once
\* it has elapsed confirms it Free, with an event
C23_UntouchedUnknownGoesFree ==
    /\ \A sid \in DOMAIN slots : \A dets \in WellFormedFrames :
          ~slot_occupancy(dets, sid) =>
              /\ ObservedState(dets, sid) = "free"
              /\ (slots[sid].current_state = "unknown"
                  /\ slots[sid].pending_state # "free") =>
                    /\ CallOn(sid, dets).event = <<>>
                    /\ CallOn(sid, dets).slot.current_state = "unknown"
                    /\ CallOn(sid, dets).slot.pending_state = "free"
                    /\ CallOn(sid, dets).slot.pending_since = now
    /\ Fresh => CallOn("B", <<DetInA>>).slot.pending_state = "free"
    /\ \A t0 \in 0..MaxTime :
          AfterFirstCall("B", "free", t0) =>
              /\ slots["B"].current_state = "unknown"
              /\ slots["B"].pending_state = "free"
              /\ slots["B"].pending_since = t0
              /\ IF now - t0 >= Debounce
                 THEN /\ EventsFor(CallEvents(<<DetInA>>), "B") = 1
                      /\ EventFor(CallEvents(<<DetInA>>), "B").state = "free"
                      /\ EventFor(CallEvents(<<DetInA>>), "B").previous_state = "unknown"
                      /\ CallOn("B", <<DetInA>>).slot.current_state = "free"
                 ELSE /\ EventsFor(CallEvents(<<DetInA>>), "B") = 0
                      /\ CallOn("B", <<DetInA>>).slot = slots["B"]

\* C23 witness: the second call of the scenario, the first one after the
\* debounce window, has returned B's event next to A's, and B is Free
C23_Witness ==
    /\ now - streak["B"].since >= Debounce
    /\ slots["B"].last_change = now
    /\ streak["B"] = [obs |-> "free", since |-> 0, calls |-> 2, emitted |-> 1]
    /\ Len(lastEvents) = 2
    /\ lastEvents[1].slot_id = "A"
    /\ lastEvents[2].slot_id = "B"
    /\ lastEvents[2].state = "free"
    /\ lastEvents[2].previous_state = "unknown"
    /\ lastEvents[2].confidence = One
    /\ slots["B"].current_state = "free"
    /\ slots["B"].pending_state = "none"

\* the slot_def the polygon of slot sid was loaded from: the last one of
\* that slot_id before the first slot_def that raises
LoadedBefore(defs) ==
    {i \in 1..Len(defs) : \A j \in 1..i : ~SlotDefRaises(defs[j])}

AuthoredPoly(sid) ==
    LET defs == slots_config.config.slots
        mine == {i \in LoadedBefore(defs) : defs[i].slot_id = sid}
    IN defs[CHOOSE i \in mine : \A j \in mine : j <= i].poly

\* the image_size the polygons were authored at
ConfigSize ==
    IF "image_size" \in DOMAIN slots_config.config
    THEN slots_config.config.image_size ELSE capture_resolution

\* C24: polygon scaling: every vertex (x, y) of every loaded polygon is
\* (x * target_width / config_width, y * target_height / config_height),
\* each axis by its own factor; the vertex (100, 100) authored at
\* [1920, 1080] is (50, 50) at the target (960, 540), and (50, 100) at the
\* target (960, 1080); a center is contained by the scaled polygon
C24_PolygonScaling ==
    \A sid \in DOMAIN slots :
        /\ Len(slots[sid].polygon) = Len(AuthoredPoly(sid))
        /\ \A i \in 1..Len(AuthoredPoly(sid)) :
              /\ slots[sid].polygon[i][1] * ConfigSize[1]
                    = AuthoredPoly(sid)[i][1] * capture_resolution[1]
              /\ slots[sid].polygon[i][2] * ConfigSize[2]
                    = AuthoredPoly(sid)[i][2] * capture_resolution[2]
        /\ (sid = "A" /\ ConfigSize = <<1920, 1080>>) =>
              /\ capture_resolution = <<960, 540>> =>
                    /\ slots[sid].polygon[1] = <<50, 50>>
                    /\ Contains(slots[sid].polygon, DetInHalfA.center)
                    /\ ~Contains(slots[sid].polygon, DetInA.center)
              /\ capture_resolution = <<960, 1080>> =>
                    slots[sid].polygon[1] = <<50, 100>>
              /\ capture_resolution = <<1920, 1080>> =>
                    /\ slots[sid].polygon[1] = <<100, 100>>
                    /\ Contains(slots[sid].polygon, DetInA.center)

\* C24 witness: slot A, authored at [1920, 1080], was loaded at (960, 540),
\* and a call has confirmed it Occupied by a center at (75, 75)
C24_Witness ==
    /\ "A" \in DOMAIN slots
    /\ slots_config.file = "json"
    /\ ConfigSize = <<1920, 1080>>
    /\ capture_resolution = <<960, 540>>
    /\ slots["A"].polygon = << <<50, 50>>, <<100, 50>>, <<100, 100>>, <<50, 100>> >>
    /\ slots["A"].current_state = "occupied"

\* the document is missing or malformed: _load_slots returned early or
\* logged an exception
Malformed == slots_config.file # "json" \/ LoadSlots(slots_config, capture_resolution).error

\* C25: slot loading fails softly: with a missing or malformed slot
\* configuration the registry starts empty, wherever in the document the
\* malformed part is: total_slots is 0 and every process call returns no
\* events
C25_SoftFailureEmpty ==
    Malformed => /\ get_summary.total_slots = 0
                 /\ lastEvents = <<>>

\* what does hold for C25: the registry of a malformed document holds the
\* slots listed before the malformed part and no others; it is empty when
\* the file is missing or is not JSON, when the image_size cannot be divided
\* by, and when the first slot listed is malformed
C25_LoadsUpToMalformedPart ==
    Malformed =>
        IF slots_config.file = "json" /\ ConfigSize[1] # 0 /\ ConfigSize[2] # 0
        THEN DOMAIN slots = {slots_config.config.slots[i].slot_id :
                                i \in LoadedBefore(slots_config.config.slots)}
        ELSE DOMAIN slots = {}

\* the roi_version the slot configuration declares
DeclaredRoiVersion == slots_config.config.roi_version

\* C26: every state-change event a process call returns and every summary
\* get_summary returns carries the roi_version declared by the slot
\* configuration the polygons were loaded from
C26_RoiVersionCarried ==
    (slots_config.file = "json" /\ "roi_version" \in DOMAIN slots_config.config) =>
        /\ \A i \in 1..Len(lastEvents) : lastEvents[i].roi_version = DeclaredRoiVersion
        /\ lastQuery.op = "get_summary" => lastQuery.value.roi_version = DeclaredRoiVersion

\* C27: the confidence of a Free observation: 1.0 when the frame holds no
\* detection at all, and 1 - c, for a detection of confidence c of the
\* frame, when detections were evaluated against the slot and none of them
\* is contained in it
C27_FreeConfidence ==
    \A sid \in DOMAIN slots : \A dets \in WellFormedFrames :
        ~slot_occupancy(dets, sid) =>
            IF dets = <<>>
            THEN ObservedConfidence(dets, sid) = One
            ELSE \E i \in 1..Len(dets) :
                    ObservedConfidence(dets, sid) = One - dets[i].confidence

\* what does hold for C27: every Free observation has the confidence 1.0
C27_FreeConfidenceIsOne ==
    \A sid \in DOMAIN slots : \A dets \in WellFormedFrames :
        ~slot_occupancy(dets, sid) => ObservedConfidence(dets, sid) = One

\* the point is in the interior of the polygon or on its boundary
InsideOrOnBoundary(poly, p) ==
    /\ poly[1][1] <= p.x /\ p.x <= poly[3][1]
    /\ poly[1][2] <= p.y /\ p.y <= poly[3][2]

\* the greatest confidence among the detections of dets chosen by In
MaxConfidence(dets, In(_)) ==
    LET cs == {dets[i].confidence : i \in {j \in 1..Len(dets) : In(dets[j].center)}}
    IN CHOOSE m \in cs : \A c \in cs : c <= m

\* C28: containment treats the boundary as inside: a slot is observed
\* Occupied in a frame if and only if a detection center of the frame lies
\* in the interior or on an edge or vertex of its polygon, and its raw
\* confidence is then the greatest confidence of the detections it contains
C28_BoundaryInside ==
    \A sid \in DOMAIN slots : \A dets \in WellFormedFrames :
        LET In(p) == InsideOrOnBoundary(slots[sid].polygon, p)
        IN /\ slot_occupancy(dets, sid) <=> \E i \in 1..Len(dets) : In(dets[i].center)
           /\ slot_occupancy(dets, sid) =>
                 slot_confidence(dets, sid) = MaxConfidence(dets, In)

\* what does hold for C28: the same with the interior alone
C28_InteriorOnly ==
    \A sid \in DOMAIN slots : \A dets \in WellFormedFrames :
        LET In(p) == Contains(slots[sid].polygon, p)
        IN /\ slot_occupancy(dets, sid) <=> \E i \in 1..Len(dets) : In(dets[i].center)
           /\ slot_occupancy(dets, sid) =>
                 /\ slot_confidence(dets, sid) = MaxConfidence(dets, In)
                 /\ ObservedConfidence(dets, sid) = MaxConfidence(dets, In)

\* C29: process never fails on its detection input: no call raises, be its
\* detection list empty, its centers outside every polygon or its
\* detections malformed
C29_NeverFails == ~raised

\* what does hold for C29: a call with an empty list or with well-formed
\* detections raises nothing and observes every slot that contains no
\* center as Free; a detection without its confidence raises only when a
\* polygon contains its center, one without its center always
C29_WellFormedNeverFails ==
    /\ \A dets \in WellFormedFrames :
          /\ ~Raises(dets)
          /\ \A sid \in DOMAIN slots :
                ~slot_occupancy(dets, sid) => CallOn(sid, dets).slot.current_state
                                                 \in {slots[sid].current_state, "free"}
    /\ ~Raises(<<DetNoConfidenceOutside>>)
    /\ Raises(<<DetNoConfidenceInA>>)
    /\ Raises(<<DetNoCenter>>)

\* a get_summary or get_all_states call returns in this step
QueryStep == lastQuery' # lastQuery

\* C30: get_summary and get_all_states are read-only: a call of either
\* changes no slot's current_state, pending_state, pending_since,
\* confidence, last_change or dwell_start (nor anything else of the
\* engine), and every process call returns after it the events it would
\* have returned before it
C30_QueriesReadOnly ==
    [][ QueryStep =>
          /\ slots' = slots
          /\ <<now, lastEvents, raised, enter_threshold, exit_threshold, loadVars>>'
                = <<now, lastEvents, raised, enter_threshold, exit_threshold, loadVars>>
          /\ \A dets \in WellFormedFrames :
                /\ CallEvents(dets)' = CallEvents(dets)
                /\ \A sid \in DOMAIN slots : CallOn(sid, dets)' = CallOn(sid, dets) ]_vars

\* C30 witness: between two process calls, with a window pending on A and
\* B Free, get_all_states has returned the states as they are
C30_Witness ==
    /\ lastQuery.op = "get_all_states"
    /\ lastQuery.value = get_all_states
    /\ slots["A"].current_state = "occupied"
    /\ slots["A"].pending_state = "free"
    /\ slots["B"].current_state = "free"
    /\ lastEvents = <<>>
    /\ ~raised

\* the confirmation step of C31 but for dwell_s: the event names the pending
\* state and the state before the call, and the slot is in the new state
\* since now, with no pending window
ConfirmsPending(sid) ==
    LET e == EventFor(lastEvents', sid)
    IN /\ EventsFor(lastEvents', sid) = 1
       /\ slots[sid].pending_state # "none"
       /\ e.state = slots[sid].pending_state
       /\ e.previous_state = slots[sid].current_state
       /\ slots'[sid].current_state = e.state
       /\ slots'[sid].last_change = now
       /\ slots'[sid].dwell_start = now
       /\ slots'[sid].pending_state = "none"
       /\ slots'[sid].pending_since = -1

\* C31 as stated: when a call confirms a transition, the event has the
\* pending state, the state before the call and dwell_seconds = now -
\* dwell_start (dwell_start as it was before the call), and the slot is
\* updated to the new state, last_change = dwell_start = now, with no
\* pending window
C31_ConfirmationStepExactDwell ==
    [][ \A sid \in SlotIds : Emits(sid) =>
          /\ ConfirmsPending(sid)
          /\ EventFor(lastEvents', sid).dwell_s * TicksPerSecond
                = now - slots[sid].dwell_start ]_vars

\* C31, amended: the same, with dwell_s the whole seconds of now -
\* dwell_start, the fraction of a second dropped
C31_ConfirmationStep ==
    [][ \A sid \in SlotIds : Emits(sid) =>
          /\ ConfirmsPending(sid)
          /\ EventFor(lastEvents', sid).dwell_s * TicksPerSecond
                <= now - slots[sid].dwell_start
          /\ now - slots[sid].dwell_start
                < (EventFor(lastEvents', sid).dwell_s + 1) * TicksPerSecond ]_vars

\* C31 witness: a slot built at time 0 was confirmed by the last call, one
\* second and a half later: its event has dwell_s = 1
C31_Witness ==
    \E sid \in SlotIds :
        /\ now = TicksPerSecond + 1
        /\ EventsFor(lastEvents, sid) = 1
        /\ EventFor(lastEvents, sid).previous_state = "unknown"
        /\ EventFor(lastEvents, sid).state = slots[sid].current_state
        /\ EventFor(lastEvents, sid).dwell_s = 1
        /\ slots[sid].last_change = now
        /\ slots[sid].dwell_start = now
        /\ slots[sid].pending_state = "none"

\* C32: a slot's stored confidence is the last observed one: after every
\* process call the confidence of each slot, as get_all_states reports it,
\* is the confidence computed for the slot from the detections of that call
C32_ConfidenceLastObserved ==
    \A sid \in DOMAIN slots :
        /\ get_all_states[sid].confidence = slots[sid].confidence
        /\ \A dets \in WellFormedFrames :
              CallOn(sid, dets).slot.confidence = ObservedConfidence(dets, sid)

\* what does hold for C32: a call stores the confidence it computed when it
\* opens a pending window or finds the gated observation equal to the
\* current state; a call inside an open window and a call that confirms
\* leave the confidence stored when the window was opened
C32_ConfidenceStoredOutsideWindow ==
    \A sid \in DOMAIN slots : \A dets \in WellFormedFrames :
        LET gated == Gated(slots[sid], ObservedState(dets, sid),
                           ObservedConfidence(dets, sid),
                           enter_threshold, exit_threshold)
        IN CallOn(sid, dets).slot.confidence =
              IF gated # slots[sid].current_state /\ gated = slots[sid].pending_state
              THEN slots[sid].confidence
              ELSE ObservedConfidence(dets, sid)

\* the events of the rows a replay has read
RowEvents(rs) == {rs[i].event : i \in 1..Len(rs)}

\* C33: a failed batch is appended atomically: while _buffer_events is at
\* work on a batch no record of it is in event_buffer as a replay reads it,
\* so every record a replay reads belongs to a call that has returned; the
\* call ends with the whole batch in the buffer or, when a statement raised
\* or the process died part-way, with the buffer as it was
C33_AtomicAppend ==
    [][ /\ procPc' \in {"posting", "buffering"} =>
              \A e \in Range(procEvents') :
                  /\ \A i \in 1..Len(buffer') : buffer'[i].event # e
                  /\ e \notin RowEvents(rows')
        /\ ReplayReads => RowEvents(rows') \subseteq returned
        /\ (procPc = "buffering" /\ procPc' = "idle") =>
              \/ /\ buffer' = buffer \o txn
                 /\ Len(txn) = Len(procEvents)
                 /\ \A i \in 1..Len(txn) : txn[i].event = procEvents[i]
              \/ buffer' = buffer ]_vars

\* C33 witness: a replay holds the rows it has read while _buffer_events
\* has inserted the first of the two events of a batch and not committed
C33_Witness ==
    /\ procPc = "buffering"
    /\ Len(procEvents) = 2
    /\ Len(txn) = 1
    /\ replayPc = "posting"
    /\ rows = buffer
    /\ rows # <<>>

\* C34: a failed batch of n events is persisted as n records, one per event
\* and in the order of the batch, under ascending ids above every id in the
\* buffer; a replay reads the min(batch_size, buffer_depth) records of the
\* smallest ids, whatever batches they came from, and its DELETE removes the
\* records it read and no others
C34_PerEventRecords ==
    [][ /\ (SendReturns /\ ~ret'.ok) =>
              /\ Len(buffer') = Len(buffer) + Len(procEvents)
              /\ SubSeq(buffer', 1, Len(buffer)) = buffer
              /\ \A i \in 1..Len(procEvents) :
                    /\ buffer'[Len(buffer) + i].event = procEvents[i]
                    /\ \A j \in 1..(Len(buffer) + i - 1) :
                          buffer'[j].id < buffer'[Len(buffer) + i].id
        /\ ReplayReads => rows' = SubSeq(buffer, 1, Min(BatchSize, Len(buffer)))
        /\ ReplayDeletes =>
              /\ \A i \in 1..Len(buffer') : buffer'[i].id \notin Ids(rows)
              /\ \A i \in 1..Len(buffer) :
                    buffer[i].id \notin Ids(rows) => buffer[i] \in Range(buffer') ]_vars

\* C34 witness: the last send, of two events, failed and was buffered behind
\* the record of an earlier batch; the replay in progress has read that
\* record and the first event of the batch, and the second event of the
\* batch is in the buffer outside what it read
C34_Witness ==
    /\ lastPost.by = "send_slot_events"
    /\ Len(lastPost.events) = 2
    /\ replayPc = "posting"
    /\ Len(rows) = 2
    /\ rows[1].event \notin Range(lastPost.events)
    /\ rows[2].event = lastPost.events[1]
    /\ InBuffer(lastPost.events[2])
    /\ lastPost.events[2] \notin RowEvents(rows)

\* C35: once the current_state of a slot has left Unknown it never is
\* Unknown again: no call takes a slot to Unknown, no event has the state
\* unknown, and an event with previous_state unknown is returned only for a
\* slot that was Unknown before the call and is not after it, so a slot has
\* at most one such event, its first
C35_UnknownNeverReturns ==
    [][ /\ \A sid \in SlotIds :
              /\ slots[sid].current_state # "unknown" =>
                    slots'[sid].current_state # "unknown"
              /\ slots'[sid].pending_state # "unknown"
              /\ (Emits(sid) /\ EventFor(lastEvents', sid).previous_state = "unknown") =>
                    /\ slots[sid].current_state = "unknown"
                    /\ slots'[sid].current_state # "unknown"
        /\ \A i \in 1..Len(lastEvents') :
              lastEvents'[i].state \in {"free", "occupied"} ]_vars

\* C35 witness: the last call returned an event for a slot that had left
\* Unknown before: its previous_state is not unknown
C35_Witness ==
    \E sid \in SlotIds :
        /\ EventsFor(lastEvents, sid) = 1
        /\ EventFor(lastEvents, sid).previous_state \in {"free", "occupied"}
        /\ EventFor(lastEvents, sid).state # EventFor(lastEvents, sid).previous_state
        /\ slots[sid].current_state = EventFor(lastEvents, sid).state
        /\ slots[sid].last_change = now

\* C36: after every process call, for every slot: pending_state is absent
\* exactly when pending_since is absent, and a pending_state that is present
\* is Free or Occupied and differs from current_state
C36_PendingWellFormed ==
    \A sid \in SlotIds :
        /\ slots[sid].pending_state = "none" <=> slots[sid].pending_since = -1
        /\ slots[sid].pending_state # "none" =>
              /\ slots[sid].pending_state \in {"free", "occupied"}
              /\ slots[sid].pending_state # slots[sid].current_state
              /\ slots[sid].pending_since \in 0..now

\* C36 witness: after calls that confirmed a slot Occupied and then opened
\* a window to Free on it, another slot has its window closed again
C36_Witness ==
    \E sid \in SlotIds :
        /\ slots[sid].current_state = "occupied"
        /\ slots[sid].pending_state = "free"
        /\ slots[sid].pending_since > slots[sid].last_change
        /\ \E other \in SlotIds \ {sid} :
              /\ slots[other].current_state = "free"
              /\ slots[other].pending_state = "none"
              /\ slots[other].pending_since = -1
              /\ streak[other].calls >= 2

\* C37: a call returns at most one event per slot, the state of an event
\* differs from its previous_state, and the events of a slot are chained:
\* a slot starts Unknown, the previous_state of an event is the state the
\* slot was in, the slot is in the state of the event afterwards and keeps
\* it until its next event; so after its first event the event states of a
\* slot alternate between Free and Occupied
C37_EventsChained ==
    /\ \A sid \in SlotIds : slots[sid].current_state = "unknown"
    /\ [][ \A sid \in SlotIds :
              /\ EventsFor(lastEvents', sid) <= 1
              /\ Emits(sid) =>
                    /\ EventFor(lastEvents', sid).state
                          # EventFor(lastEvents', sid).previous_state
                    /\ EventFor(lastEvents', sid).previous_state
                          = slots[sid].current_state
                    /\ slots'[sid].current_state = EventFor(lastEvents', sid).state
                    /\ slots[sid].current_state # "unknown" =>
                          {EventFor(lastEvents', sid).state, slots[sid].current_state}
                              = {"free", "occupied"}
              /\ ~Emits(sid) => slots'[sid].current_state = slots[sid].current_state
         ]_vars

\* C37 witness: the last call returned two events, one per slot: for one
\* slot the event from Occupied to Free that follows its event to Occupied,
\* for the other its first event
C37_Witness ==
    /\ Len(lastEvents) = 2
    /\ lastEvents[1].slot_id # lastEvents[2].slot_id
    /\ \E i, j \in 1..2 :
          /\ lastEvents[i].previous_state = "occupied"
          /\ lastEvents[i].state = "free"
          /\ lastEvents[j].previous_state = "unknown"

\* C38: counter conservation. From an empty buffer, with no undecodable
\* record and no restart, whenever neither send_slot_events nor
\* replay_buffered_events is under way, buffer_depth is events_buffered -
\* events_replayed and events_sent + events_buffered + events_failed is the
\* number of events passed to send_slot_events; events_replayed is written
\* by the replay thread only and the other three by the processing thread
\* only, whatever the interleaving of the two
C38_Quiescent ==
    /\ restarts = 0
    /\ ~HasCorrupt
    /\ procPc = "idle"
    /\ replayPc = "idle"

C38_CounterConservation ==
    /\ [](C38_Quiescent =>
            /\ buffer_depth = stats.events_buffered - stats.events_replayed
            /\ stats.events_sent + stats.events_buffered + stats.events_failed
                  = nextEvent)
    /\ [][restarts' = restarts =>
            /\ stats'.events_replayed # stats.events_replayed =>
                  /\ replayPc = "deleting"
                  /\ UNCHANGED <<procPc, procEvents, txn>>
            /\ (\/ stats'.events_sent # stats.events_sent
                \/ stats'.events_buffered # stats.events_buffered
                \/ stats'.events_failed # stats.events_failed) =>
                  /\ procPc \in {"posting", "buffering"}
                  /\ UNCHANGED <<replayPc, rows>>
         ]_vars

\* C38 witness: both threads are at rest after one batch was sent, one was
\* buffered and replayed and one failed
C38_Witness ==
    /\ C38_Quiescent
    /\ stats.events_sent > 0
    /\ stats.events_failed > 0
    /\ stats.events_replayed > 0

\* C39: a Free observation has the confidence 1.0, so under an
\* exit_threshold of at most 1.0 the exit gate suppresses nothing: a call in
\* which an Occupied slot contains no detection center opens or keeps the
\* slot's window to Free, or confirms it, whatever else the frame holds;
\* and an Occupied slot that every call of a span of at least Debounce has
\* found empty is turned Free, with an event, by the call that ends the span
C39_ExitGateNeverSuppresses ==
    /\ [](\A sid \in DOMAIN slots : \A dets \in Frame :
            (/\ exit_threshold <= One
             /\ slots[sid].current_state = "occupied"
             /\ ~slot_occupancy(dets, sid)) =>
                /\ ObservedConfidence(dets, sid) = One
                /\ Gated(slots[sid], ObservedState(dets, sid),
                         ObservedConfidence(dets, sid),
                         enter_threshold, exit_threshold) = "free"
                /\ \/ CallOn(sid, dets).slot.current_state = "free"
                   \/ /\ CallOn(sid, dets).slot.pending_state = "free"
                      /\ CallOn(sid, dets).slot.pending_since =
                            IF slots[sid].pending_state = "free"
                            THEN slots[sid].pending_since ELSE now)
    /\ [][\A sid \in SlotIds :
            (/\ CallStep
             /\ exit_threshold <= One
             /\ slots[sid].current_state = "occupied"
             /\ streak'[sid].obs = "free"
             /\ now - streak'[sid].since >= Debounce) =>
                /\ slots'[sid].current_state = "free"
                /\ Emits(sid)
                /\ EventFor(lastEvents', sid).state = "free"
         ]_vars

\* C39 witness: under exit_threshold = 0.4 the last call has turned a slot
\* from Occupied to Free at the end of a run of calls that found it empty
\* while each found a vehicle in the other slot
C39_Witness ==
    /\ exit_threshold <= One
    /\ \E sid, other \in SlotIds :
          /\ sid # other
          /\ streak[sid].obs = "free"
          /\ streak[sid].calls >= 2
          /\ streak[other].obs = "occupied"
          /\ streak[other].calls >= streak[sid].calls
          /\ slots[sid].current_state = "free"
          /\ slots[sid].last_change = now
          /\ now - streak[sid].since >= Debounce
          /\ \E i \in 1..Len(lastEvents) :
                /\ lastEvents[i].slot_id = sid
                /\ lastEvents[i].previous_state = "occupied"

\* a step of replay_buffered_frames on the v1 node
ReplayFramesStep ==
    /\ node = "v1"
    /\ nextFrame' = nextFrame
    /\ fret'.op = "replay_buffered_frames"
    /\ <<fbuffer', fstats', fret', facked'>> # <<fbuffer, fstats, fret, facked>>

\* C40: replay_buffered_frames uploads the buffered frames in ascending
\* insertion id and stops at the first failed upload: the n frames it
\* uploaded are the n oldest rows, they are deleted and counted in
\* replayed; the row whose upload failed has its retry_count raised by one;
\* that row and every younger row stay in the buffer, in their order and
\* otherwise unchanged; no row is inserted
C40_ReplayStopsAtFirstFailure ==
    /\ [](\A i, j \in 1..Len(fbuffer) : i < j => fbuffer[i].id < fbuffer[j].id)
    /\ [][ReplayFramesStep =>
            LET n == fret'.n
                batch == Min(FrameBatch, Len(fbuffer))
            IN /\ n \in 0..batch
               /\ facked' = facked \cup {fbuffer[i].frame : i \in 1..n}
               /\ fstats' = [fstats EXCEPT !.replayed = @ + n]
               /\ fseq' = fseq
               /\ Len(fbuffer') = Len(fbuffer) - n
               /\ \A i \in 1..Len(fbuffer') :
                     /\ fbuffer'[i].id = fbuffer[n + i].id
                     /\ fbuffer'[i].frame = fbuffer[n + i].frame
                     /\ fbuffer'[i].retry_count =
                           fbuffer[n + i].retry_count
                              + (IF i = 1 /\ n < batch THEN 1 ELSE 0)
         ]_vars

\* C40 witness: the last replay uploaded the oldest frame, failed on the
\* second, which is still buffered with its retry_count raised, and left a
\* third, younger frame untouched behind it
C40_Witness ==
    /\ fret = [op |-> "replay_buffered_frames", ok |-> TRUE, n |-> 1]
    /\ fstats.replayed = 1
    /\ Len(fbuffer) = 2
    /\ fbuffer[1].retry_count = 1
    /\ fbuffer[2].retry_count = 0
    /\ facked = {1}

=============================================================================
